---- MODULE Spec2Model ----
(***************************************************************************)
(* AURA backend: the appointment tools of the patient agent, the REST      *)
(* booking endpoint and the agent turn (PatientAgentLangGraph and          *)
(* PatientAgent), modelled over the persisted tables they read and write.  *)
(*                                                                         *)
(* Instants are whole minutes; day d runs from d * MinutesPerDay.  NULL    *)
(* stands for SQL NULL / Python None in integer columns (row ids start     *)
(* at 1, and the code tests these columns by truthiness).                  *)
(***************************************************************************)
EXTENDS Integers, Sequences, FiniteSets, TLC

VARIABLES
    appointments,   \* table appointments: sequence of rows, id = position
    consultations,  \* table consultations: id -> row
    messages,       \* table messages: sequence of rows in created_at order
    last,           \* the most recent tool / endpoint call and its result
    listed,         \* consultation id -> doctor ids returned by get_available_doctors so far
    bookers,        \* concurrent schedule_appointment executions (one session each)
    turns,          \* agent turns (process_message executions)
    surge_predictions,  \* table surge_predictions: sequence of rows, id = position
    surge_runs,     \* compute_daily_predictions executions (one session each)
    deletes         \* delete_consultation executions (one session each)

vars == <<appointments, consultations, messages, last, listed, bookers, turns, surge_predictions, surge_runs, deletes>>

-----------------------------------------------------------------------------
(* Program constants *)

NULL == 0
SlotMinutes == 30
StartHour == 9
EndHour == 17
MaxSlotsReturned == 10
MinutesPerDay == 1440
MinutesPerHour == 60

(* Bounds of the model *)
MaxAppts == 2

-----------------------------------------------------------------------------
(* The clock and the rows that exist before the modelled operations run *)

\* date.today(), and the days around it
Today == 1
Yesterday == Today - 1
Tomorrow == Today + 1

At(day, hour, minute) == day * MinutesPerDay + hour * MinutesPerHour + minute
DateOf(t) == t \div MinutesPerDay

Users ==
    (1 :> [role |-> "patient", hospital_id |-> 1]) @@
    (2 :> [role |-> "patient", hospital_id |-> 2]) @@
    (3 :> [role |-> "doctor",  hospital_id |-> 1]) @@
    (4 :> [role |-> "doctor",  hospital_id |-> 1]) @@
    (5 :> [role |-> "admin",   hospital_id |-> NULL])

UserIds == DOMAIN Users
Doctors == {u \in UserIds : Users[u].role = "doctor"}
MissingUser == 9

InitConsultations ==
    (1 :> [patient_id |-> 1, doctor_id |-> NULL, status |-> "pending"]) @@
    (2 :> [patient_id |-> 2, doctor_id |-> NULL, status |-> "pending"])

MissingConsultation == 7

\* table documents: the rows of each patient
Documents == { [id |-> 1, patient_id |-> 1], [id |-> 2, patient_id |-> 2] }

-----------------------------------------------------------------------------
(* Inputs *)

\* (consultation_id, patient_id) pairs a chat request can carry: patient_id is
\* the authenticated user, consultation_id is whatever the request names.
Conversations ==
    { [c |-> 1, p |-> 1], [c |-> 2, p |-> 2] }

DoctorIdChoices == Doctors \cup {1, MissingUser}
HospitalChoices == {NULL, 1, 2}
ModeChoices == {"online", "inperson"}
BookModes == {"inperson"}

\* datetime_str arguments: an ISO string denoting instant t, or text that
\* datetime.fromisoformat rejects.
BookInstants ==
    { At(Yesterday, 10, 0), At(Today, 9, 30), At(Today, 10, 0), At(Today, 10, 15) }
DatetimeStrChoices ==
    { [iso |-> TRUE, t |-> t] : t \in BookInstants } \cup { [iso |-> FALSE, t |-> 0] }

\* date arguments of check_doctor_availability
DateChoices ==
    { [fmt |-> "ymd", day |-> d] : d \in {Today, Tomorrow} } \cup
    { [fmt |-> "bad", day |-> 0] }

NoDate == 0 - 1

-----------------------------------------------------------------------------
(* Scheduling: conflict detection and slot enumeration *)

Min(a, b) == IF a <= b THEN a ELSE b

Indexes(seq) == 1 .. Len(seq)

\* A conflict query that only looks for the same start.
LGConflictsSameStart(appts, doctor_id, t) ==
    { i \in Indexes(appts) : appts[i].datetime = t /\ appts[i].doctor_id = doctor_id }

\* The conflict query of PatientAgentLangGraph's schedule_appointment.
LGConflicts(appts, doctor_id, t) ==
    { i \in Indexes(appts) :
        /\ appts[i].datetime < t + SlotMinutes
        /\ appts[i].datetime + SlotMinutes > t
        /\ appts[i].doctor_id = doctor_id }

\* A booking path that runs no conflict query.
PatientDoctorConflictsSkipped(appts, doctor_id, patient_id, t) == {}

\* The conflict query of BaseAgent._schedule_appointment and of
\* create_appointment: every condition is AND-ed, the patient one included.
PatientDoctorConflicts(appts, doctor_id, patient_id, t) ==
    { i \in Indexes(appts) :
        /\ appts[i].datetime < t + SlotMinutes
        /\ appts[i].datetime + SlotMinutes > t
        /\ (doctor_id # NULL => appts[i].doctor_id = doctor_id)
        /\ (patient_id # NULL => appts[i].patient_id = patient_id) }

\* for hour in range(9, 17): for minute in [0, 30]
GridSlots(day) ==
    [ k \in 1 .. 2 * (EndHour - StartHour) |->
        At(day, StartHour + (k - 1) \div 2, SlotMinutes * ((k - 1) % 2)) ]

\* the appointments check_doctor_availability selects for the day
DayAppointments(appts, doctor_id, day) ==
    { i \in Indexes(appts) :
        /\ appts[i].doctor_id = doctor_id
        /\ appts[i].datetime >= At(day, 0, 0)
        /\ appts[i].datetime < At(day + 2, 0, 0) }

SlotAvailable(appts, existing, slot_time) ==
    \A i \in existing :
        ~ (slot_time >= appts[i].datetime /\ slot_time < appts[i].datetime + SlotMinutes)

AvailableSlots(appts, doctor_id, day) ==
    LET existing == DayAppointments(appts, doctor_id, day)
        Free(s) == SlotAvailable(appts, existing, s)
    IN  SelectSeq(GridSlots(day), Free)

\* The slot list without the cap.
FirstSlotsUncapped(slots) == slots

\* available_slots[:10]
FirstSlots(slots) == SubSeq(slots, 1, Min(MaxSlotsReturned, Len(slots)))

ParseDate(date) == IF date.fmt = "ymd" THEN date.day ELSE NoDate

-----------------------------------------------------------------------------
(* Tool results *)

NoResult ==
    [op |-> "none", c |-> NULL, patient_id |-> NULL, doctor_id |-> NULL, t |-> NoDate,
     ok |-> FALSE, err |-> "", slots |-> <<>>, total |-> 0, day |-> NoDate,
     ids |-> {}, appointment_id |-> NULL, documents |-> {}]

Result(op, c, doctor_id, ok, err) ==
    [NoResult EXCEPT !.op = op, !.c = c, !.doctor_id = doctor_id,
                     !.ok = ok, !.err = err]

-----------------------------------------------------------------------------
(* The tools of PatientAgentLangGraph._create_tools(consultation_id, patient_id).
   Each yields the tables after the tool and the tool's result. *)

Outcome(appts, cons, res) ==
    [appointments |-> appts, consultations |-> cons, result |-> res]

NewAppointment(patient_id, doctor_id, consultation_id, t, mode) ==
    [patient_id |-> patient_id, doctor_id |-> doctor_id,
     consultation_id |-> consultation_id, datetime |-> t,
     mode |-> IF mode = "online" THEN "online" ELSE "inperson"]

\* The foreign keys of an appointments row (users.id, consultations.id).
AppointmentKeysOk(cons, row) ==
    /\ row.patient_id \in UserIds
    /\ row.doctor_id = NULL \/ row.doctor_id \in UserIds
    /\ row.consultation_id = NULL \/ row.consultation_id \in DOMAIN cons

\* schedule_appointment without the role test of lines 291-293
LGScheduleAppointmentAnyUser(appts, cons, c, p, doctor_id, datetime_str, mode, commitOk) ==
    LET R(ok, err) == [Result("schedule_appointment", c, doctor_id, ok, err)
                          EXCEPT !.t = datetime_str.t, !.patient_id = p]
        t == datetime_str.t
        row == NewAppointment(p, doctor_id, c, t, mode)
        assigned ==
            IF c \in DOMAIN cons /\ cons[c].doctor_id = NULL
            THEN [cons EXCEPT ![c].doctor_id = doctor_id, ![c].status = "in_progress"]
            ELSE cons
    IN  IF doctor_id \notin UserIds
            THEN Outcome(appts, cons, R(FALSE, "doctor_missing"))
        ELSE IF p \notin UserIds
            THEN Outcome(appts, cons, R(FALSE, "patient_missing"))
        ELSE IF ~ datetime_str.iso
            THEN Outcome(appts, cons, R(FALSE, "exception"))
        ELSE IF DateOf(t) < Today
            THEN Outcome(appts, cons, R(FALSE, "past"))
        ELSE IF LGConflicts(appts, doctor_id, t) # {}
            THEN Outcome(appts, cons, R(FALSE, "not_available"))
        ELSE IF ~ commitOk \/ ~ AppointmentKeysOk(cons, row)
            THEN Outcome(appts, cons, R(FALSE, "exception"))
        ELSE Outcome(Append(appts, row), assigned,
                     [R(TRUE, "") EXCEPT !.appointment_id = Len(appts) + 1])

\* schedule_appointment committing the assignment apart from the insert
LGScheduleAppointmentAssignApart(appts, cons, c, p, doctor_id, datetime_str, mode, commitOk) ==
    LET out == LGScheduleAppointmentAnyUser(appts, cons, c, p, doctor_id, datetime_str, mode, TRUE)
        R(ok, err) == [Result("schedule_appointment", c, doctor_id, ok, err)
                          EXCEPT !.t = datetime_str.t, !.patient_id = p]
    IN  IF doctor_id \in UserIds /\ Users[doctor_id].role # "doctor"
            THEN Outcome(appts, cons, R(FALSE, "not_a_doctor"))
        ELSE IF out.result.ok /\ ~ commitOk
            THEN Outcome(appts, out.consultations, R(FALSE, "exception"))
        ELSE out

\* schedule_appointment inserting the row before it refuses a past date
LGScheduleAppointmentKeepsPast(appts, cons, c, p, doctor_id, datetime_str, mode, commitOk) ==
    LET out == LGScheduleAppointmentAnyUser(appts, cons, c, p, doctor_id, datetime_str, mode, commitOk)
        R(ok, err) == [Result("schedule_appointment", c, doctor_id, ok, err)
                          EXCEPT !.t = datetime_str.t, !.patient_id = p]
    IN  IF doctor_id \in UserIds /\ Users[doctor_id].role # "doctor"
            THEN Outcome(appts, cons, R(FALSE, "not_a_doctor"))
        ELSE IF out.result.err = "past"
            THEN Outcome(Append(appts, NewAppointment(p, doctor_id, c, datetime_str.t, mode)),
                         cons, out.result)
        ELSE out

LGScheduleAppointment(appts, cons, c, p, doctor_id, datetime_str, mode, commitOk) ==
    LET R(ok, err) == [Result("schedule_appointment", c, doctor_id, ok, err)
                          EXCEPT !.t = datetime_str.t, !.patient_id = p]
        t == datetime_str.t
        row == NewAppointment(p, doctor_id, c, t, mode)
        assigned ==
            IF c \in DOMAIN cons /\ cons[c].doctor_id = NULL
            THEN [cons EXCEPT ![c].doctor_id = doctor_id, ![c].status = "in_progress"]
            ELSE cons
    IN  IF doctor_id \notin UserIds
            THEN Outcome(appts, cons, R(FALSE, "doctor_missing"))
        ELSE IF Users[doctor_id].role # "doctor"
            THEN Outcome(appts, cons, R(FALSE, "not_a_doctor"))
        ELSE IF p \notin UserIds
            THEN Outcome(appts, cons, R(FALSE, "patient_missing"))
        ELSE IF ~ datetime_str.iso
            THEN Outcome(appts, cons, R(FALSE, "exception"))
        ELSE IF DateOf(t) < Today
            THEN Outcome(appts, cons, R(FALSE, "past"))
        ELSE IF LGConflicts(appts, doctor_id, t) # {}
            THEN Outcome(appts, cons, R(FALSE, "not_available"))
        ELSE IF ~ commitOk \/ ~ AppointmentKeysOk(cons, row)
            THEN Outcome(appts, cons, R(FALSE, "exception"))
        ELSE Outcome(Append(appts, row), assigned,
                     [R(TRUE, "") EXCEPT !.appointment_id = Len(appts) + 1])

LGCheckDoctorAvailability(appts, cons, c, p, doctor_id, date) ==
    LET R(ok, err) == Result("check_doctor_availability", NULL, doctor_id, ok, err)
        day == ParseDate(date)
        available == AvailableSlots(appts, doctor_id, day)
    IN  IF doctor_id \notin Doctors
            THEN Outcome(appts, cons, R(FALSE, "doctor_invalid"))
        ELSE IF day = NoDate
            THEN Outcome(appts, cons, R(FALSE, "date_format"))
        ELSE Outcome(appts, cons,
                     [R(TRUE, "") EXCEPT !.slots = FirstSlots(available),
                                         !.total = Len(available), !.day = day])

LGGetAvailableDoctors(appts, cons, c, p, hospital_id) ==
    LET R(ok, err) == Result("get_available_doctors", c, NULL, ok, err)
        ids == { d \in Doctors : hospital_id # NULL => Users[d].hospital_id = hospital_id }
    IN  IF ids = {}
            THEN Outcome(appts, cons, R(FALSE, "no_doctors"))
        ELSE Outcome(appts, cons, [R(TRUE, "") EXCEPT !.ids = ids])

\* The doctors handoff_to_doctor's query may return: those of the hospital of
\* the consultation's patient when that patient has one, else every doctor.
LGHandoffCandidates(cons, c) ==
    LET patient_id == cons[c].patient_id
    IN  { d \in Doctors :
            (patient_id \in UserIds /\ Users[patient_id].hospital_id # NULL)
                => Users[d].hospital_id = Users[patient_id].hospital_id }

\* handoff_to_doctor(); pick is the row the query's LIMIT 1 yields (NULL: none).
LGHandoffToDoctor(appts, cons, c, p, pick, commitOk) ==
    LET R(ok, err) == Result("handoff_to_doctor", c, pick, ok, err)
    IN  IF c \notin DOMAIN cons
            THEN Outcome(appts, cons, R(FALSE, "consultation_missing"))
        ELSE IF cons[c].doctor_id # NULL
            THEN Outcome(appts, cons, R(FALSE, "already_assigned"))
        ELSE IF pick = NULL
            THEN Outcome(appts, cons, R(FALSE, "no_doctor"))
        ELSE IF ~ commitOk
            THEN Outcome(appts, cons, R(FALSE, "exception"))
        ELSE Outcome(appts,
                     [cons EXCEPT ![c].doctor_id = pick, ![c].status = "in_progress"],
                     R(TRUE, ""))

-----------------------------------------------------------------------------
(* The booking paths outside the LangGraph agent *)

\* BaseAgent._check_doctor_availability: YYYY-MM-DD only, no doctor lookup.
BACheckDoctorAvailability(appts, cons, doctor_id, date) ==
    LET R(ok, err) == Result("_check_doctor_availability", NULL, doctor_id, ok, err)
        day == ParseDate(date)
        available == AvailableSlots(appts, doctor_id, day)
    IN  IF day = NoDate
            THEN Outcome(appts, cons, R(FALSE, "date_format"))
        ELSE Outcome(appts, cons,
                     [R(TRUE, "") EXCEPT !.slots = FirstSlots(available),
                                         !.total = Len(available), !.day = day])

\* BaseAgent._schedule_appointment(patient_id, doctor_id, datetime, mode, consultation_id)
BAScheduleAppointment(appts, cons, patient_id, doctor_id, datetime_str, mode, consultation_id, commitOk) ==
    LET R(ok, err) == [Result("_schedule_appointment", consultation_id, doctor_id, ok, err)
                          EXCEPT !.t = datetime_str.t, !.patient_id = patient_id]
        t == datetime_str.t
        row == NewAppointment(patient_id, doctor_id, consultation_id, t, mode)
    IN  IF ~ datetime_str.iso
            THEN Outcome(appts, cons, R(FALSE, "exception"))
        ELSE IF patient_id \notin UserIds
            THEN Outcome(appts, cons, R(FALSE, "patient_missing"))
        ELSE IF doctor_id \notin UserIds
            THEN Outcome(appts, cons, R(FALSE, "doctor_missing"))
        ELSE IF PatientDoctorConflicts(appts, doctor_id, patient_id, t) # {}
            THEN Outcome(appts, cons, R(FALSE, "not_available"))
        ELSE IF ~ commitOk \/ ~ AppointmentKeysOk(cons, row)
            THEN Outcome(appts, cons, R(FALSE, "exception"))
        ELSE Outcome(Append(appts, row), cons,
                     [R(TRUE, "") EXCEPT !.appointment_id = Len(appts) + 1])

\* BaseAgent._get_available_doctors(hospital_id)
BAGetAvailableDoctors(appts, cons, hospital_id) ==
    LET ids == { d \in Doctors : hospital_id # NULL => Users[d].hospital_id = hospital_id }
    IN  Outcome(appts, cons,
                [Result("_get_available_doctors", NULL, NULL, TRUE, "") EXCEPT !.ids = ids])

\* BaseAgent._handoff_to_doctor(consultation_id); a failed commit raises
BAHandoffToDoctor(appts, cons, consultation_id, commitOk) ==
    LET R(ok, err) == Result("_handoff_to_doctor", consultation_id, NULL, ok, err)
    IN  IF consultation_id \notin DOMAIN cons
            THEN Outcome(appts, cons, R(FALSE, "consultation_missing"))
        ELSE IF ~ commitOk
            THEN Outcome(appts, cons, R(FALSE, "raise"))
        ELSE Outcome(appts, [cons EXCEPT ![consultation_id].status = "in_progress"],
                     R(TRUE, ""))

\* BaseAgent._update_consultation_status(consultation_id, status)
BAUpdateConsultationStatus(appts, cons, consultation_id, status, commitOk) ==
    LET R(ok, err) == Result("_update_consultation_status", consultation_id, NULL, ok, err)
    IN  IF consultation_id \notin DOMAIN cons
            THEN Outcome(appts, cons, R(FALSE, "consultation_missing"))
        ELSE IF ~ commitOk
            THEN Outcome(appts, cons, R(FALSE, "raise"))
        ELSE Outcome(appts, [cons EXCEPT ![consultation_id].status = status],
                     R(TRUE, ""))

\* BaseAgent._fetch_patient_history(patient_id)
BAFetchPatientHistory(appts, cons, patient_id) ==
    Outcome(appts, cons,
            [Result("_fetch_patient_history", NULL, NULL, TRUE, "") EXCEPT
                 !.patient_id = patient_id,
                 !.documents = { d.id : d \in { x \in Documents : x.patient_id = patient_id } },
                 !.total = Cardinality({ c \in DOMAIN cons : cons[c].patient_id = patient_id })])

\* POST /appointments (create_appointment); current_user is the authenticated user.
\* 403, 409 and a failed commit (500) leave the table as it was.
CreateAppointmentEndpoint(appts, cons, current_user, patient_id, doctor_id, t, mode, consultation_id, commitOk) ==
    LET R(ok, err) == [Result("create_appointment", consultation_id, doctor_id, ok, err)
                          EXCEPT !.t = t, !.patient_id = patient_id]
        row == NewAppointment(patient_id, doctor_id, consultation_id, t, mode)
    IN  IF Users[current_user].role = "patient" /\ patient_id # current_user
            THEN Outcome(appts, cons, R(FALSE, "403"))
        ELSE IF PatientDoctorConflicts(appts, doctor_id, patient_id, t) # {}
            THEN Outcome(appts, cons, R(FALSE, "409"))
        ELSE IF ~ commitOk \/ ~ AppointmentKeysOk(cons, row)
            THEN Outcome(appts, cons, R(FALSE, "500"))
        ELSE Outcome(Append(appts, row), cons,
                     [R(TRUE, "") EXCEPT !.appointment_id = Len(appts) + 1])

-----------------------------------------------------------------------------
(* Initial states *)

Init ==
    /\ appointments = <<>>
    /\ consultations = InitConsultations
    /\ messages = <<>>
    /\ last = NoResult
    /\ listed = [c \in DOMAIN InitConsultations |-> {}]
    /\ bookers = <<>>
    /\ turns = <<>>
    /\ surge_predictions = <<>>
    /\ surge_runs = <<>>
    /\ deletes = <<>>

Apply(out) ==
    /\ appointments' = out.appointments
    /\ consultations' = out.consultations
    /\ last' = out.result

-----------------------------------------------------------------------------
(* SpecBook: the agent's get_available_doctors and schedule_appointment tools,
   one execution at a time, from a table without overlaps. *)

\* rows left by earlier activity: a past appointment and one without a doctor
SeedRows ==
    { NewAppointment(2, 3, NULL, At(Yesterday, 10, 0), "inperson"),
      NewAppointment(2, NULL, NULL, At(Today, 10, 0), "online") }

InitBook ==
    /\ appointments \in { <<>> } \cup { <<r>> : r \in SeedRows }
    /\ consultations = InitConsultations
    /\ messages = <<>>
    /\ last = NoResult
    /\ listed = [c \in DOMAIN InitConsultations |-> {}]
    /\ bookers = <<>>
    /\ turns = <<>>
    /\ surge_predictions = <<>>
    /\ surge_runs = <<>>
    /\ deletes = <<>>

ToolGetAvailableDoctors ==
    \E conv \in Conversations, h \in HospitalChoices :
        LET out == LGGetAvailableDoctors(appointments, consultations, conv.c, conv.p, h)
        IN  /\ Apply(out)
            /\ listed' = [listed EXCEPT ![conv.c] = @ \cup out.result.ids]
            /\ UNCHANGED <<messages, bookers, turns, surge_predictions, surge_runs, deletes>>

ToolScheduleAppointmentWith(convs) ==
    \E conv \in convs, d \in DoctorIdChoices, s \in DatetimeStrChoices,
       m \in BookModes, commitOk \in BOOLEAN :
        /\ Len(appointments) < MaxAppts
        /\ Apply(LGScheduleAppointment(appointments, consultations,
                                       conv.c, conv.p, d, s, m, commitOk))
        /\ UNCHANGED <<messages, listed, bookers, turns, surge_predictions, surge_runs, deletes>>

ToolScheduleAppointment == ToolScheduleAppointmentWith(Conversations)

NextBook ==
    \/ ToolGetAvailableDoctors
    \/ ToolScheduleAppointment

SpecBook == InitBook /\ [][NextBook]_vars

-----------------------------------------------------------------------------
(* SpecSlots: check_doctor_availability over calendars that booking leaves behind *)

\* (doctor, start) pairs of the appointments a seeded calendar may hold
SeedPool ==
    { <<3, At(Today, 9, 0)>>, <<3, At(Today, 9, 30)>>, <<3, At(Today, 10, 0)>>,
      <<3, At(Today, 10, 15)>>, <<3, At(Today, 10, 30)>>, <<3, At(Today, 11, 0)>>,
      <<3, At(Today, 11, 30)>>, <<3, At(Today, 12, 0)>>, <<3, At(Today, 12, 30)>>,
      <<4, At(Today, 9, 0)>>, <<3, At(Tomorrow, 9, 0)>> }

RECURSIVE CalendarOf(_)
CalendarOf(S) ==
    IF S = {} THEN <<>>
    ELSE LET e == CHOOSE x \in S :
                    \A y \in S : x[2] < y[2] \/ (x[2] = y[2] /\ x[1] <= y[1])
         IN  <<NewAppointment(1, e[1], 1, e[2], "inperson")>> \o CalendarOf(S \ {e})

SeedPairsOverlap(S) ==
    \E x, y \in S : x # y /\ x[1] = y[1] /\ x[2] < y[2] + SlotMinutes /\ y[2] < x[2] + SlotMinutes

InitSlots ==
    /\ appointments \in { CalendarOf(S) : S \in { T \in SUBSET SeedPool : ~ SeedPairsOverlap(T) } }
    /\ consultations = InitConsultations
    /\ messages = <<>>
    /\ last = NoResult
    /\ listed = [c \in DOMAIN InitConsultations |-> {}]
    /\ bookers = <<>>
    /\ turns = <<>>
    /\ surge_predictions = <<>>
    /\ surge_runs = <<>>
    /\ deletes = <<>>

ToolCheckDoctorAvailability ==
    \E conv \in Conversations, d \in DoctorIdChoices, date \in DateChoices :
        /\ Apply(LGCheckDoctorAvailability(appointments, consultations,
                                           conv.c, conv.p, d, date))
        /\ UNCHANGED <<messages, listed, bookers, turns, surge_predictions, surge_runs, deletes>>

BaseCheckDoctorAvailability ==
    \E d \in DoctorIdChoices, date \in DateChoices :
        /\ Apply(BACheckDoctorAvailability(appointments, consultations, d, date))
        /\ UNCHANGED <<messages, listed, bookers, turns, surge_predictions, surge_runs, deletes>>

NextSlots ==
    \/ ToolCheckDoctorAvailability
    \/ BaseCheckDoctorAvailability

SpecSlots == InitSlots /\ [][NextSlots]_vars

-----------------------------------------------------------------------------
(* SpecCreate: the creation paths that take the patient from the request *)

CreateInstants == { At(Today, 10, 0), At(Today, 10, 15) }
CreateDoctorChoices == {NULL, 3}
CreatePatientChoices == {1, 2}
CreateConsultationChoices == {NULL, 1}
CurrentUserChoices == {1, 3}

CreateAppointment ==
    \E u \in CurrentUserChoices, p \in CreatePatientChoices, d \in CreateDoctorChoices,
       t \in CreateInstants, m \in ModeChoices, c \in CreateConsultationChoices \cup {MissingConsultation},
       commitOk \in BOOLEAN :
        /\ Len(appointments) < MaxAppts
        /\ Apply(CreateAppointmentEndpoint(appointments, consultations, u, p, d, t, m, c, commitOk))
        /\ UNCHANGED <<messages, listed, bookers, turns, surge_predictions, surge_runs, deletes>>

BaseScheduleAppointment ==
    \E p \in CreatePatientChoices \cup {MissingUser}, d \in {3, MissingUser},
       s \in { [iso |-> TRUE, t |-> t] : t \in CreateInstants } \cup { [iso |-> FALSE, t |-> 0] },
       m \in ModeChoices, c \in CreateConsultationChoices, commitOk \in BOOLEAN :
        /\ Len(appointments) < MaxAppts
        /\ Apply(BAScheduleAppointment(appointments, consultations, p, d, s, m, c, commitOk))
        /\ UNCHANGED <<messages, listed, bookers, turns, surge_predictions, surge_runs, deletes>>

NextCreate ==
    \/ CreateAppointment
    \/ BaseScheduleAppointment

SpecCreate == Init /\ [][NextCreate]_vars

-----------------------------------------------------------------------------
(* SpecAvail: booking and availability checks of the agent, one tool at a time *)

NextAvail ==
    \/ ToolScheduleAppointment
    \/ ToolCheckDoctorAvailability

SpecAvail == InitBook /\ [][NextAvail]_vars

-----------------------------------------------------------------------------
(* SpecConc: schedule_appointment executions of different requests, each on
   its own session, interleaved at their awaits.  A session reads committed
   rows; its writes reach the tables at commit. *)

NBookers == 2
BookerIds == 1 .. NBookers

IdleBooker ==
    [pc |-> "idle", c |-> NULL, p |-> NULL, doctor_id |-> NULL, t |-> NoDate,
     mode |-> "inperson", assign |-> FALSE, began |-> "", ok |-> FALSE, err |-> ""]

InitConc ==
    /\ appointments = <<>>
    /\ consultations = InitConsultations
    /\ messages = <<>>
    /\ last = NoResult
    /\ listed = [c \in DOMAIN InitConsultations |-> {}]
    /\ bookers = [k \in BookerIds |-> IdleBooker]
    /\ turns = <<>>
    /\ surge_predictions = <<>>
    /\ surge_runs = <<>>
    /\ deletes = <<>>

BookerDone(b, ok, err) == [b EXCEPT !.pc = "done", !.ok = ok, !.err = err]

\* rollback, the doctor and patient lookups, fromisoformat, the past-date test
BookValidateWith(k, convs, doctor_ids, datetime_strs) ==
    \E conv \in convs, d \in doctor_ids, s \in datetime_strs :
        LET b == [bookers[k] EXCEPT !.c = conv.c, !.p = conv.p, !.doctor_id = d, !.t = s.t,
                                    !.began = consultations[conv.c].status]
        IN  /\ bookers[k].pc = "idle"
            /\ bookers' = [bookers EXCEPT ![k] =
                    IF d \notin UserIds THEN BookerDone(b, FALSE, "doctor_missing")
                    ELSE IF Users[d].role # "doctor" THEN BookerDone(b, FALSE, "not_a_doctor")
                    ELSE IF conv.p \notin UserIds THEN BookerDone(b, FALSE, "patient_missing")
                    ELSE IF ~ s.iso THEN BookerDone(b, FALSE, "exception")
                    ELSE IF DateOf(s.t) < Today THEN BookerDone(b, FALSE, "past")
                    ELSE [b EXCEPT !.pc = "conflicts"]]
            /\ UNCHANGED <<appointments, consultations, messages, last, listed, turns, surge_predictions, surge_runs, deletes>>

BookValidate(k) == BookValidateWith(k, Conversations, DoctorIdChoices, DatetimeStrChoices)

\* the conflict query
BookConflictQuery(k) ==
    /\ bookers[k].pc = "conflicts"
    /\ bookers' = [bookers EXCEPT ![k] =
            IF LGConflicts(appointments, bookers[k].doctor_id, bookers[k].t) # {}
            THEN BookerDone(@, FALSE, "not_available")
            ELSE [@ EXCEPT !.pc = "consultation"]]
    /\ UNCHANGED <<appointments, consultations, messages, last, listed, turns, surge_predictions, surge_runs, deletes>>

\* a tool that would always write the assignment
AlwaysAssigns(cons, c) == c \in DOMAIN cons

\* if consultation: if not consultation.doctor_id
NeedsDoctor(cons, c) == c \in DOMAIN cons /\ cons[c].doctor_id = NULL

\* the consultation lookup; the assignment stays in the session until commit
BookLoadConsultation(k) ==
    /\ bookers[k].pc = "consultation"
    /\ bookers' = [bookers EXCEPT ![k] =
            [@ EXCEPT !.pc = "commit",
                      !.assign = NeedsDoctor(consultations, bookers[k].c)]]
    /\ UNCHANGED <<appointments, consultations, messages, last, listed, turns, surge_predictions, surge_runs, deletes>>

\* db.add(new_appointment); await db.commit()
BookCommit(k) ==
    \E commitOk \in BOOLEAN :
        LET b == bookers[k]
            row == NewAppointment(b.p, b.doctor_id, b.c, b.t, b.mode)
        IN  /\ b.pc = "commit"
            /\ IF commitOk /\ AppointmentKeysOk(consultations, row)
               THEN /\ appointments' = Append(appointments, row)
                    /\ consultations' =
                         IF b.assign
                         THEN [consultations EXCEPT ![b.c].doctor_id = b.doctor_id,
                                                    ![b.c].status = "in_progress"]
                         ELSE consultations
                    /\ bookers' = [bookers EXCEPT ![k] = BookerDone(b, TRUE, "")]
               ELSE /\ bookers' = [bookers EXCEPT ![k] = BookerDone(b, FALSE, "exception")]
                    /\ UNCHANGED <<appointments, consultations>>
            /\ UNCHANGED <<messages, last, listed, turns, surge_predictions, surge_runs, deletes>>

NextConc ==
    \E k \in BookerIds :
        \/ BookValidate(k)
        \/ BookConflictQuery(k)
        \/ BookLoadConsultation(k)
        \/ BookCommit(k)

SpecConc == InitConc /\ [][NextConc]_vars

-----------------------------------------------------------------------------
(* The agent turn: process_message of PatientAgentLangGraph ("lg") and of
   PatientAgent ("pa").  Text is a sequence of tokens: "w" stands for words,
   "B" for a well-formed ---RISK_ASSESSMENT--- ... ---END_ASSESSMENT--- block;
   the reply templates of the code are tokens of their own. *)

\* graph.ainvoke(initial_state) passes no config, so the graph run is cut by
\* LangGraph's default recursion_limit: that many super-steps (node
\* executions), then GraphRecursionError.
RecursionLimit == 25

TextChoices == { <<>>, <<"w">>, <<"B">>, <<"w", "B">> }

\* A tool request of the policy: the tool's name and the arguments it supplies.
NoCall ==
    [name |-> "none", consultation_id |-> NULL, patient_id |-> NULL, doctor_id |-> NULL,
     datetime_str |-> [iso |-> FALSE, t |-> 0], hospital_id |-> NULL, status |-> ""]

Call(name, consultation_id, patient_id) ==
    [NoCall EXCEPT !.name = name, !.consultation_id = consultation_id,
                   !.patient_id = patient_id]

PolicyIds == {1, 2}

\* requests as the policy can word them for PatientAgentLangGraph's tools,
\* whose signatures take no consultation_id and no patient_id
LGCallChoices ==
    { Call("handoff_to_doctor", NULL, NULL),
      Call("get_available_doctors", NULL, NULL),
      [Call("schedule_appointment", NULL, NULL)
          EXCEPT !.doctor_id = 3, !.datetime_str = [iso |-> TRUE, t |-> At(Today, 10, 0)]],
      [Call("update_consultation_status", 2, NULL) EXCEPT !.status = "in_progress"] }

\* requests as the policy can word them for PatientAgent._call_tool
PACallChoices ==
    { Call("handoff_to_doctor", x, NULL) : x \in PolicyIds } \cup
    { [Call("schedule_appointment", x, y)
          EXCEPT !.doctor_id = 3, !.datetime_str = [iso |-> TRUE, t |-> At(Today, 10, 0)]]
        : x \in PolicyIds, y \in PolicyIds } \cup
    { Call("get_available_doctors", NULL, NULL),
      Call("write_doctor_note", 1, NULL) } \cup
    { [Call("update_consultation_status", x, NULL) EXCEPT !.status = "in_progress"]
        : x \in PolicyIds } \cup
    { Call("fetch_patient_history", NULL, y) : y \in PolicyIds }

\* further tool calls of the same policy response
MoreCallChoices ==
    { <<>>, << Call("get_available_doctors", NULL, NULL) >>, << Call("write_doctor_note", 1, NULL) >> }

TurnSlots == {1}
TurnConversations == Conversations \cup { [c |-> MissingConsultation, p |-> 1] }
AgentChoices == {"lg", "pa"}

IdleTurn ==
    [agent |-> "none", pc |-> "idle", c |-> NULL, p |-> NULL,
     steps |-> 0, rounds |-> 0, policy_calls |-> 0, policy_failed |-> FALSE,
     last_empty |-> FALSE, followups |-> 0, text_call |-> "none", audit |-> <<>>,
     commit_failed |-> FALSE, pending |-> <<>>,
     hist |-> <<>>, context |-> <<>>, req |-> NoCall, more |-> <<>>, injected |-> <<>>,
     text |-> <<>>, fallback |-> "none",
     first_tool |-> "none", first_ids |-> {},
     created |-> {}, touched |-> {}, reply |-> <<>>, reply_source |-> "none", risk |-> "null",
     key |-> "", err |-> ""]

MessageRow(consultation_id, sender_role, content, turn) ==
    [consultation_id |-> consultation_id, sender_role |-> sender_role,
     content |-> content, turn |-> turn]

\* transcripts earlier turns have left (turn 0)
EarlierTranscripts ==
    { <<>>,
      << MessageRow(1, "patient", <<"w">>, 0), MessageRow(1, "aura_agent", <<"w">>, 0) >>,
      << MessageRow(1, "patient", <<"w">>, 0), MessageRow(1, "aura_agent", <<>>, 0),
         MessageRow(1, "doctor", <<"w">>, 0) >> }

InitTurn ==
    /\ appointments = <<>>
    /\ consultations = InitConsultations
    /\ messages \in EarlierTranscripts
    /\ last = NoResult
    /\ listed = [c \in DOMAIN InitConsultations |-> {}]
    /\ bookers = <<>>
    /\ turns = [k \in TurnSlots |-> IdleTurn]
    /\ surge_predictions = <<>>
    /\ surge_runs = <<>>
    /\ deletes = <<>>

\* for msg in reversed(messages): the latest agent message with content
LastAgentText(msgs, c) ==
    LET IsAgentText(m) ==
            m.consultation_id = c /\ m.sender_role = "aura_agent" /\ m.content # <<>>
        texts == SelectSeq(msgs, IsAgentText)
    IN  IF texts = <<>> THEN <<>> ELSE texts[Len(texts)].content

\* one entry of the policy context
ContextEntry(m) == [sender_role |-> m.sender_role, content |-> m.content]

\* the conversation handed to the policy: the consultation's messages in
\* created_at order, those of the patient and of the agent only, then the
\* current user message
BuildContext(msgs, c, user_message) ==
    LET Mine(m) == m.consultation_id = c
        Kept(m) == m.sender_role \in { "patient", "aura_agent" }
        rows == SelectSeq(SelectSeq(msgs, Mine), Kept)
    IN  [i \in Indexes(rows) |-> ContextEntry(rows[i])]
            \o << [sender_role |-> "patient", content |-> user_message] >>

\* what the reply fallback reads in a tool message: JSON with an error or
\* success false, JSON with a non-empty doctor list, or neither
ToolMessageKind(res) ==
    IF res.op \in {"handoff_to_doctor", "unknown_tool"} THEN "other"
    ELSE IF ~ res.ok THEN "error"
    ELSE IF res.op = "get_available_doctors" THEN "doctors"
    ELSE "other"

\* the fallback scans the tool messages from the last one backwards
NextFallback(fallback, res) ==
    IF ToolMessageKind(res) = "other" THEN fallback ELSE ToolMessageKind(res)

FallbackText(fallback) ==
    IF fallback = "error" THEN <<"encountered_an_issue">>
    ELSE IF fallback = "doctors" THEN <<"found_doctors">>
    ELSE <<"processed_your_request">>

IsNotBlock(token) == token # "B"

\* re.search(r"---RISK_ASSESSMENT---([\s\S]*?)---END_ASSESSMENT---", content)
HasBlock(text) == \E i \in Indexes(text) : text[i] = "B"

\* risk_assessment: the record parsed from the matched block, else None
ParseRisk(text) == IF HasBlock(text) THEN "parsed" ELSE "null"

\* content.replace(assessment_match.group(0), "").strip()
StripRisk(text) == SelectSeq(text, IsNotBlock)

\* messages.consultation_id without its foreign key
ForeignKeyUnenforced(cons, consultation_id) == TRUE

\* consultation_id = Column(Integer, ForeignKey("consultations.id"), nullable=False):
\* a message row is accepted only for a consultation that exists
ForeignKeyOk(cons, consultation_id) == consultation_id \in DOMAIN cons

\* self.db.add(user_msg) with no commit.
SaveUserMessageUncommitted(msgs, pending, row, commitOk) ==
    [messages |-> msgs, pending |-> Append(pending, row), ok |-> TRUE]

\* self.db.add(user_msg); await self.db.commit(), and the rollback of a failed commit
SaveUserMessage(msgs, pending, row, commitOk) ==
    IF commitOk
    THEN [messages |-> msgs \o Append(pending, row), pending |-> <<>>, ok |-> TRUE]
    ELSE [messages |-> msgs, pending |-> <<>>, ok |-> FALSE]

\* the rows a tool created and the consultations it changed, added to the turn's record
Effects(t, out) ==
    [t EXCEPT !.created = @ \cup ((Len(appointments) + 1) .. Len(out.appointments)),
              !.touched = @ \cup { x \in DOMAIN consultations :
                                     out.consultations[x] # consultations[x] }]

TurnFailed(t, err) == [t EXCEPT !.pc = "failed", !.err = err]

\* tool_calls.append({"tool": ..., "result": ...})
AuditEntry(tool, result) == [tool |-> tool, result |-> result]

\* the tool_calls list of PatientAgentLangGraph: the tool calls carried by the
\* AIMessage the content was taken from, each with the result {}
LGAudit(t) ==
    IF t.text # <<>> /\ t.text_call # "none"
    THEN << AuditEntry(t.text_call, NoResult) >>
    ELSE <<>>

\* the tool's result reports that its commit raised
CommitFailed(call, res) ==
    /\ res.err \in {"exception", "raise"}
    /\ call.name = "schedule_appointment" => call.datetime_str.iso

\* The request arrives: PatientAgent looks the consultation up first.
TurnBegin(k) ==
    \E a \in AgentChoices, conv \in TurnConversations :
        LET t == [IdleTurn EXCEPT !.agent = a, !.c = conv.c, !.p = conv.p,
                                  !.hist = LastAgentText(messages, conv.c),
                                  !.context = IF a = "pa" /\ conv.c \notin DOMAIN consultations
                                              THEN <<>>
                                              ELSE BuildContext(messages, conv.c, <<"w">>)]
        IN  /\ turns[k].pc = "idle"
            /\ turns' = [turns EXCEPT ![k] =
                    IF a = "pa" /\ conv.c \notin DOMAIN consultations
                    THEN TurnFailed(t, "consultation_not_found")
                    ELSE [t EXCEPT !.pc = "save_user"]]
            /\ UNCHANGED <<appointments, consultations, messages, last, listed, bookers, surge_predictions, surge_runs, deletes>>

\* Save user message
TurnSaveUser(k) ==
    \E commitOk \in BOOLEAN :
        LET t == turns[k]
            saved == SaveUserMessage(messages, t.pending,
                                     MessageRow(t.c, "patient", <<"w">>, k),
                                     commitOk /\ ForeignKeyOk(consultations, t.c))
        IN  /\ t.pc = "save_user"
            /\ messages' = saved.messages
            /\ turns' = [turns EXCEPT ![k] =
                    IF saved.ok
                    THEN [t EXCEPT !.pc = "agent", !.pending = saved.pending]
                    ELSE TurnFailed([t EXCEPT !.pending = saved.pending,
                                              !.commit_failed = TRUE], "user_commit")]
            /\ UNCHANGED <<appointments, consultations, last, listed, bookers, surge_predictions, surge_runs, deletes>>

\* ToolNode(tools): the tool the request names, run with the (consultation_id,
\* patient_id) the tools were created for; any other name yields an error message.
LGRunTool(appts, cons, c, p, call, pick, commitOk) ==
    IF call.name = "handoff_to_doctor"
        THEN LGHandoffToDoctor(appts, cons, c, p, pick, commitOk)
    ELSE IF call.name = "get_available_doctors"
        THEN LGGetAvailableDoctors(appts, cons, c, p, call.hospital_id)
    ELSE IF call.name = "schedule_appointment"
        THEN LGScheduleAppointment(appts, cons, c, p, call.doctor_id,
                                   call.datetime_str, "inperson", commitOk)
    ELSE Outcome(appts, cons, Result("unknown_tool", c, NULL, FALSE, "not_a_valid_tool"))

\* what LIMIT 1 of handoff_to_doctor's doctor query can yield
HandoffPicks(cons, c) ==
    IF c \in DOMAIN cons /\ LGHandoffCandidates(cons, c) # {}
    THEN LGHandoffCandidates(cons, c)
    ELSE {NULL}

\* node "agent" (_call_agent): rollback, then the policy call, which may raise;
\* calls are the tool requests the policy may answer with (NoCall: none)
LGCallAgentWith(k, calls) ==
    LET t == turns[k]
    IN  /\ t.agent = "lg" /\ t.pc = "agent"
        /\ t.steps < RecursionLimit
        /\ \/ turns' = [turns EXCEPT ![k] =
                    TurnFailed([t EXCEPT !.pending = <<>>, !.steps = @ + 1,
                                         !.policy_calls = @ + 1,
                                         !.policy_failed = TRUE], "policy")]
           \/ \E text \in TextChoices, call \in calls :
                /\ call # NoCall => text \in {<<>>, <<"w">>}
                /\ turns' = [turns EXCEPT ![k] = [t EXCEPT
                        !.pending = <<>>, !.steps = @ + 1, !.policy_calls = @ + 1,
                        !.text = IF text # <<>> THEN text ELSE @,
                        !.last_empty = (text = <<>>),
                        !.text_call = IF text # <<>> THEN call.name ELSE @,
                        !.req = call,
                        \* _should_continue
                        !.pc = IF call # NoCall THEN "tools" ELSE "reply"]]
        /\ UNCHANGED <<appointments, consultations, messages, last, listed, bookers, surge_predictions, surge_runs, deletes>>

LGCallAgent(k) == LGCallAgentWith(k, LGCallChoices \cup {NoCall})

\* node "tools"
LGToolNode(k) ==
    LET t == turns[k]
    IN  /\ t.agent = "lg" /\ t.pc = "tools"
        /\ t.steps < RecursionLimit
        /\ \E commitOk \in BOOLEAN,
              pick \in (IF t.req.name = "handoff_to_doctor"
                        THEN HandoffPicks(consultations, t.c) ELSE {NULL}) :
            LET out == LGRunTool(appointments, consultations, t.c, t.p, t.req, pick, commitOk)
            IN  /\ Apply(out)
                /\ listed' = IF out.result.op = "get_available_doctors"
                             THEN [listed EXCEPT ![t.c] = @ \cup out.result.ids]
                             ELSE listed
                /\ turns' = [turns EXCEPT ![k] = [Effects(t, out) EXCEPT
                        !.steps = @ + 1, !.rounds = @ + 1, !.req = NoCall,
                        !.commit_failed = @ \/ CommitFailed(t.req, out.result),
                        !.fallback = NextFallback(@, out.result),
                        !.pc = "agent"]]
        /\ UNCHANGED <<messages, bookers, surge_predictions, surge_runs, deletes>>

\* the graph run reaches the recursion limit with a node still to run:
\* GraphRecursionError leaves graph.ainvoke and process_message
LGRecursionError(k) ==
    LET t == turns[k]
    IN  /\ t.agent = "lg" /\ t.pc \in {"agent", "tools"}
        /\ t.steps >= RecursionLimit
        /\ turns' = [turns EXCEPT ![k] = TurnFailed(t, "recursion")]
        /\ UNCHANGED <<appointments, consultations, messages, last, listed, bookers, surge_predictions, surge_runs, deletes>>

\* the reply: the last AIMessage with content (the history's included), else a
\* fallback from the tool messages; then the agent message is saved, a failed
\* commit only being logged
LGReply(k) ==
    \E commitOk \in BOOLEAN :
        LET t == turns[k]
            content == IF t.text # <<>> THEN t.text
                       ELSE IF t.hist # <<>> THEN t.hist
                       ELSE FallbackText(t.fallback)
        IN  /\ t.agent = "lg" /\ t.pc = "reply"
            /\ messages' = IF commitOk /\ ForeignKeyOk(consultations, t.c)
                           THEN Append(messages, MessageRow(t.c, "aura_agent", content, k))
                           ELSE messages
            /\ turns' = [turns EXCEPT ![k] = [t EXCEPT
                    !.pc = "done", !.reply = content, !.key = "message",
                    \* which message of final_state["messages"] the content is from
                    !.reply_source = IF t.text # <<>> THEN "policy"
                                     ELSE IF t.hist # <<>> THEN "history"
                                     ELSE "fallback",
                    !.audit = LGAudit(t),
                    !.commit_failed = @ \/ ~ (commitOk /\ ForeignKeyOk(consultations, t.c))]]
            /\ UNCHANGED <<appointments, consultations, last, listed, bookers, surge_predictions, surge_runs, deletes>>

\* "Validate and correct IDs" of PatientAgent.process_message
PACorrectIds(call, consultation_id, patient_id) ==
    IF call.name = "handoff_to_doctor"
        THEN [call EXCEPT !.consultation_id = consultation_id]
    ELSE IF call.name = "schedule_appointment"
        THEN [call EXCEPT !.patient_id = patient_id, !.consultation_id = consultation_id]
    ELSE call

\* BaseAgent._call_tool(tool_name, **tool_args)
PACallTool(appts, cons, call, commitOk) ==
    IF call.name = "handoff_to_doctor"
        THEN BAHandoffToDoctor(appts, cons, call.consultation_id, commitOk)
    ELSE IF call.name = "schedule_appointment"
        THEN BAScheduleAppointment(appts, cons, call.patient_id, call.doctor_id,
                                   call.datetime_str, "inperson", call.consultation_id,
                                   commitOk)
    ELSE IF call.name = "get_available_doctors"
        THEN BAGetAvailableDoctors(appts, cons, call.hospital_id)
    ELSE IF call.name = "write_doctor_note"
        THEN Outcome(appts, cons, Result("_write_doctor_note", call.consultation_id, NULL, TRUE, ""))
    ELSE IF call.name = "update_consultation_status"
        THEN BAUpdateConsultationStatus(appts, cons, call.consultation_id, call.status, commitOk)
    ELSE IF call.name = "fetch_patient_history"
        THEN BAFetchPatientHistory(appts, cons, call.patient_id)
    ELSE Outcome(appts, cons, Result("unknown_tool", NULL, NULL, FALSE, "unknown_tool"))

\* the first policy call; when it raises, the turn returns the technical-issue
\* text under "message" and saves no agent message
PACallPolicyWith(k, calls) ==
    LET t == turns[k]
    IN  /\ t.agent = "pa" /\ t.pc = "agent"
        /\ \/ turns' = [turns EXCEPT ![k] = [t EXCEPT
                    !.policy_calls = @ + 1, !.policy_failed = TRUE, !.pc = "done",
                    !.reply = <<"technical_issue">>, !.key = "message"]]
           \/ \E text \in TextChoices, call \in calls, more \in MoreCallChoices :
                /\ call = NoCall => more = <<>>
                /\ turns' = [turns EXCEPT ![k] = [t EXCEPT
                    !.policy_calls = @ + 1, !.text = text, !.req = call, !.more = more,
                    !.last_empty = (text = <<>>),
                    !.pc = IF call # NoCall THEN "tools" ELSE "reply"]]
        /\ UNCHANGED <<appointments, consultations, messages, last, listed, bookers, surge_predictions, surge_runs, deletes>>

PACallPolicy(k) == PACallPolicyWith(k, PACallChoices \cup {NoCall})

\* for tool_call in assistant_message.tool_calls, one pass: the requested
\* tool, its identifiers corrected, through _call_tool; a commit that raises
\* in a handler without try/except leaves process_message
PARunTools(k) ==
    \E commitOk \in BOOLEAN :
        LET t == turns[k]
            out == PACallTool(appointments, consultations,
                              PACorrectIds(t.req, t.c, t.p), commitOk)
        IN  /\ t.agent = "pa" /\ t.pc = "tools"
            /\ Apply(out)
            /\ listed' = IF out.result.op = "_get_available_doctors"
                         THEN [listed EXCEPT ![t.c] = @ \cup out.result.ids]
                         ELSE listed
            /\ turns' = [turns EXCEPT ![k] =
                    IF out.result.err = "raise"
                    THEN TurnFailed([t EXCEPT !.commit_failed = TRUE], "tool_commit")
                    ELSE [Effects(t, out) EXCEPT
                            !.rounds = @ + 1,
                            !.req = IF t.more # <<>> THEN Head(t.more) ELSE NoCall,
                            !.more = IF t.more # <<>> THEN Tail(t.more) ELSE <<>>,
                            !.audit = Append(@, AuditEntry(t.req.name, out.result)),
                            !.commit_failed = @ \/ CommitFailed(t.req, out.result),
                            \* tool_calls[0]
                            !.first_tool = IF t.audit = <<>> THEN t.req.name ELSE @,
                            !.first_ids = IF t.audit = <<>> THEN out.result.ids ELSE @,
                            \* if tool_calls and not assistant_message.content
                            !.pc = IF t.more # <<>> THEN "tools"
                                   ELSE IF t.text = <<>> THEN "followup" ELSE "reply"]]
            /\ UNCHANGED <<messages, bookers, surge_predictions, surge_runs, deletes>>

FollowUpChoices == { "raises", "none", "empty", "text" }

\* the follow-up policy call; when it raises (a None content raises in the
\* log line after the assignment) only get_available_doctors has a fallback
PAFollowUp(k) ==
    \E f \in FollowUpChoices :
        LET t == turns[k]
            templated ==
                IF t.first_tool = "get_available_doctors"
                THEN IF t.first_ids # {} THEN <<"found_doctors">> ELSE <<"no_doctors_found">>
                ELSE <<>>
        IN  /\ t.agent = "pa" /\ t.pc = "followup"
            /\ turns' = [turns EXCEPT ![k] = [t EXCEPT
                    !.policy_calls = @ + 1, !.followups = @ + 1,
                    \* the one tool message of follow_up_messages
                    !.injected = << t.audit[1] >>,
                    !.policy_failed = (f = "raises"),
                    !.text = IF f = "text" THEN <<"w">>
                             ELSE IF f = "empty" THEN <<>>
                             ELSE templated,
                    !.pc = "reply"]]
            /\ UNCHANGED <<appointments, consultations, messages, last, listed, bookers, surge_predictions, surge_runs, deletes>>

\* risk extraction, then the agent message is added and committed; the turn
\* returns the stripped content under "response"
PAReply(k) ==
    \E commitOk \in BOOLEAN :
        LET t == turns[k]
            content == StripRisk(t.text)
        IN  /\ t.agent = "pa" /\ t.pc = "reply"
            /\ IF commitOk /\ ForeignKeyOk(consultations, t.c)
               THEN /\ messages' = messages \o
                          Append(t.pending, MessageRow(t.c, "aura_agent", content, k))
                    /\ turns' = [turns EXCEPT ![k] = [t EXCEPT
                            !.pc = "done", !.pending = <<>>,
                            !.reply = content, !.reply_source = "policy",
                            !.risk = ParseRisk(t.text),
                            !.key = "response"]]
               ELSE /\ messages' = messages
                    /\ turns' = [turns EXCEPT ![k] = TurnFailed([t EXCEPT !.commit_failed = TRUE], "reply_commit")]
            /\ UNCHANGED <<appointments, consultations, last, listed, bookers, surge_predictions, surge_runs, deletes>>

NextTurn ==
    \E k \in TurnSlots :
        \/ TurnBegin(k)
        \/ TurnSaveUser(k)
        \/ LGCallAgent(k)
        \/ LGToolNode(k)
        \/ LGRecursionError(k)
        \/ LGReply(k)
        \/ PACallPolicy(k)
        \/ PARunTools(k)
        \/ PAFollowUp(k)
        \/ PAReply(k)

SpecTurn == InitTurn /\ [][NextTurn]_vars

-----------------------------------------------------------------------------
(* Properties of the appointment table *)

Overlap(a, b) ==
    /\ a.datetime < b.datetime + SlotMinutes
    /\ b.datetime < a.datetime + SlotMinutes

NoOverlap(appts) ==
    \A i, j \in Indexes(appts) :
        (i # j /\ appts[i].doctor_id # NULL /\ appts[i].doctor_id = appts[j].doctor_id)
            => ~ Overlap(appts[i], appts[j])

\* C1: from a table without overlaps, after any sequence of non-concurrent
\* executions of the agent's schedule_appointment, no two appointments of the
\* same doctor have overlapping [start, start + 30 min) intervals.
C1_NoDoctorOverlap == NoOverlap(appointments)

\* C1 witness: the tool has just booked a doctor back to back with another
\* patient's appointment.
C1_Witness ==
    /\ last.op = "schedule_appointment" /\ last.ok
    /\ \E i, j \in Indexes(appointments) :
        /\ appointments[i].doctor_id = appointments[j].doctor_id
        /\ appointments[i].patient_id # appointments[j].patient_id
        /\ appointments[j].datetime = appointments[i].datetime + SlotMinutes

\* C2: of two concurrent schedule_appointment executions for the same doctor
\* and the same start, exactly one inserts an appointment and the other gets
\* the scheduling-conflict failure; never do both insert a row.
C2_ExactlyOneBooks ==
    \A j, k \in BookerIds :
        (/\ j # k
         /\ bookers[j].pc = "done" /\ bookers[k].pc = "done"
         /\ bookers[j].doctor_id = bookers[k].doctor_id
         /\ bookers[j].t = bookers[k].t
         /\ bookers[j].err \in {"", "not_available"}
         /\ bookers[k].err \in {"", "not_available"})
            => \/ bookers[j].ok /\ bookers[k].err = "not_available"
               \/ bookers[k].ok /\ bookers[j].err = "not_available"

\* C3: create_appointment and BaseAgent._schedule_appointment never insert an
\* appointment that overlaps an existing appointment of the same doctor,
\* whichever patient the request carries.
C3_CreatePathsRecheck ==
    (last.op \in {"create_appointment", "_schedule_appointment"} /\ last.ok)
        => \A i \in Indexes(appointments) :
            (i # last.appointment_id
             /\ appointments[i].doctor_id # NULL
             /\ appointments[i].doctor_id = appointments[last.appointment_id].doctor_id)
                => ~ Overlap(appointments[i], appointments[last.appointment_id])

\* C4: a schedule_appointment call whose doctor_id was in no earlier
\* get_available_doctors result of the conversation is rejected.
C4_UnlistedDoctorRejected ==
    (last.op = "schedule_appointment" /\ last.doctor_id \notin listed[last.c])
        => ~ last.ok

\* C9: no slot returned by check_doctor_availability conflicts, under the
\* predicate schedule_appointment applies, with an appointment of that doctor.
C9_ReturnedSlotsBookable ==
    (last.op = "check_doctor_availability" /\ last.ok)
        => \A k \in Indexes(last.slots) :
            LGConflicts(appointments, last.doctor_id, last.slots[k]) = {}

\* The grid of the day: 30-minute-aligned starts in [09:00, 17:00).
GridInstants(day) ==
    { t \in At(day, StartHour, 0) .. (At(day, EndHour, 0) - 1) :
        (t - At(day, 0, 0)) % SlotMinutes = 0 }

\* a grid start that falls inside [start, start + 30 min) of an appointment of the doctor
Excluded(doctor_id, g) ==
    \E i \in Indexes(appointments) :
        /\ appointments[i].doctor_id = doctor_id
        /\ appointments[i].datetime <= g
        /\ g < appointments[i].datetime + SlotMinutes

Range(seq) == { seq[k] : k \in Indexes(seq) }

\* C10: the returned slot list is exactly the first 10, in chronological
\* order, of the grid starts of the requested date that no appointment of the
\* doctor excludes.
C10_FirstTenFreeGridSlots ==
    (last.op \in {"check_doctor_availability", "_check_doctor_availability"} /\ last.ok)
        => LET s == last.slots
               free == { g \in GridInstants(last.day) : ~ Excluded(last.doctor_id, g) }
           IN  /\ Len(s) <= MaxSlotsReturned
               /\ \A k \in Indexes(s) : s[k] \in free
               /\ \A k \in Indexes(s) : k > 1 => s[k - 1] < s[k]
               /\ \A g \in free :
                    g \in Range(s) <=> Cardinality({ h \in free : h < g }) < MaxSlotsReturned

\* C10 witness: the doctor has a 10:00 appointment and the list is
\* 09:00, 09:30, 10:30, ... with 10 entries out of more free slots.
C10_Witness ==
    /\ last.op = "check_doctor_availability" /\ last.ok
    /\ \E i \in Indexes(appointments) :
        /\ appointments[i].doctor_id = last.doctor_id
        /\ appointments[i].datetime = At(last.day, 10, 0)
    /\ Len(last.slots) = MaxSlotsReturned
    /\ last.total > MaxSlotsReturned
    /\ SubSeq(last.slots, 1, 3) =
         <<At(last.day, 9, 0), At(last.day, 9, 30), At(last.day, 10, 30)>>

-----------------------------------------------------------------------------
(* Properties of the agent turn *)

\* C5: every appointment a tool created during the turn process_message(c, p)
\* has patient_id = p and consultation_id = c, and every consultation a tool
\* changed (status or assigned doctor) during the turn is consultation c of
\* patient p, whatever identifiers the policy put in its tool arguments.
C5_ToolsUseCallerIds ==
    \A k \in DOMAIN turns :
        /\ \A i \in turns[k].created :
            /\ appointments[i].patient_id = turns[k].p
            /\ appointments[i].consultation_id = turns[k].c
        /\ \A x \in turns[k].touched :
            /\ x = turns[k].c
            /\ consultations[x].patient_id = turns[k].p

MaxToolRounds == (RecursionLimit - 1) \div 2

\* C6: the loop of a turn runs at most a fixed number of tool rounds and then
\* reaches its terminal state (the policy's reply); it never stops short of it
\* because the bound was reached.
C6_BoundedRoundsThenTerminal ==
    \A k \in DOMAIN turns :
        /\ turns[k].rounds <= MaxToolRounds
        /\ ~ (turns[k].pc = "failed" /\ turns[k].err = "recursion")

\* C7: a turn that returns to its caller returns a non-empty reply text.
C7_ReplyNonEmpty ==
    \A k \in DOMAIN turns :
        turns[k].pc = "done" => turns[k].reply # <<>>

\* the patient message of turn k is in the messages table
UserMessagePersisted(k) ==
    \E i \in Indexes(messages) :
        /\ messages[i].turn = k
        /\ messages[i].sender_role = "patient"
        /\ messages[i].consultation_id = turns[k].c

ToolOrPolicyRan(t) ==
    t.policy_calls > 0 \/ t.rounds > 0 \/ t.created # {} \/ t.touched # {}

\* C8: in a turn the patient's message is committed before the first policy
\* call and before any tool runs; when that commit fails neither a policy call
\* nor a tool runs; and a turn that aborts at a later step leaves the patient's
\* message persisted.
C8_UserMessageCommittedFirst ==
    \A k \in DOMAIN turns :
        /\ ToolOrPolicyRan(turns[k]) => UserMessagePersisted(k)
        /\ (turns[k].pc = "failed" /\ turns[k].err = "user_commit")
              => ~ ToolOrPolicyRan(turns[k]) /\ ~ UserMessagePersisted(k)
        /\ (turns[k].pc = "failed"
            /\ turns[k].err \notin {"user_commit", "consultation_not_found"})
              => UserMessagePersisted(k)

\* C8 witness: a turn aborted after a tool changed a consultation, and the
\* patient's message of that turn is in the table.
C8_Witness ==
    \E k \in DOMAIN turns :
        /\ turns[k].pc = "failed"
        /\ turns[k].err \in {"policy", "recursion", "tool_commit"}
        /\ turns[k].touched # {}
        /\ UserMessagePersisted(k)

-----------------------------------------------------------------------------
(* SpecChat: chat requests handled at the same time, each by its own
   process_message on its own session (patient_chat takes no lock and keeps
   no queue), with a policy that answers in text. *)

NChats == 2
ChatSlots == 1 .. NChats

InitChat ==
    /\ appointments = <<>>
    /\ consultations = InitConsultations
    /\ messages = <<>>
    /\ last = NoResult
    /\ listed = [c \in DOMAIN InitConsultations |-> {}]
    /\ bookers = <<>>
    /\ turns = [k \in ChatSlots |-> IdleTurn]
    /\ surge_predictions = <<>>
    /\ surge_runs = <<>>
    /\ deletes = <<>>

NextChat ==
    \E k \in ChatSlots :
        \/ TurnBegin(k)
        \/ TurnSaveUser(k)
        \/ LGCallAgentWith(k, {NoCall})
        \/ LGReply(k)
        \/ PACallPolicyWith(k, {NoCall})
        \/ PAReply(k)

SpecChat == InitChat /\ [][NextChat]_vars

\* a turn that has read the transcript and has neither returned nor failed
TurnInProgress(t) == t.pc \notin {"idle", "done", "failed"}

\* C11: no two turns of the same consultation are in progress at the same
\* time: a turn for a consultation reads the transcript and calls the policy
\* only when no other turn of that consultation is under way.
C11_OneTurnPerConsultation ==
    \A j, k \in DOMAIN turns :
        (j # k /\ turns[j].c = turns[k].c)
            => ~ (TurnInProgress(turns[j]) /\ TurnInProgress(turns[k]))

-----------------------------------------------------------------------------
(* Failures inside a turn *)

\* the agent message turn k saved
AgentMessagePersisted(k) ==
    \E i \in Indexes(messages) :
        /\ messages[i].turn = k
        /\ messages[i].sender_role = "aura_agent"
        /\ messages[i].consultation_id = turns[k].c
        /\ messages[i].content = turns[k].reply

\* C12: a turn in which a policy call failed does not end in an error; when it
\* has returned, it returned a non-empty fallback text and that reply is in
\* the transcript; and after the failure the turn makes no further policy call.
C12_PolicyFailureEndsInSavedFallback ==
    /\ [](\A k \in DOMAIN turns :
            turns[k].policy_failed =>
                /\ turns[k].pc # "failed"
                /\ turns[k].pc = "done" =>
                      turns[k].reply # <<>> /\ AgentMessagePersisted(k))
    /\ [][\A k \in DOMAIN turns :
            turns[k].policy_failed => turns'[k].policy_calls = turns[k].policy_calls]_vars

-----------------------------------------------------------------------------
(* Booking and the clock *)

\* the instant at which the modelled calls run: 09:40 on date.today()
Now == At(Today, 9, 40)

\* C13: schedule_appointment rejects every start strictly before the current
\* instant, a start earlier on the current day included, creating no
\* appointment; and it rejects no start at or after the current instant as
\* being in the past.
C13_PastStartRejected ==
    last.op = "schedule_appointment" =>
        /\ last.t < Now => ~ last.ok
        /\ last.t >= Now => last.err # "past"

-----------------------------------------------------------------------------
(* Escalation *)

\* C14: after handoff_to_doctor has run on an existing consultation (its
\* commit not failing), the consultation's status is in_progress or escalated,
\* whether or not a doctor exists for the patient's hospital or was already
\* assigned; and when a doctor exists for the patient's hospital the
\* consultation has an assigned doctor.
C14_HandoffEscalates ==
    (/\ last.op \in {"handoff_to_doctor", "_handoff_to_doctor"}
     /\ last.c \in DOMAIN consultations
     /\ last.err \notin {"exception", "raise"})
        => /\ consultations[last.c].status \in {"in_progress", "escalated"}
           /\ LGHandoffCandidates(consultations, last.c) # {}
                 => consultations[last.c].doctor_id # NULL

-----------------------------------------------------------------------------
(* SpecConflict: the two schedule_appointment implementations of the agents,
   one execution at a time *)

NextConflict ==
    \/ ToolScheduleAppointment
    \/ BaseScheduleAppointment

SpecConflict == InitBook /\ [][NextConflict]_vars

\* the appointments of the table that meet [t, t + 30 min) for the doctor
\* (and, where the booking path asks per patient, for the patient)
Conflicting(appts, doctor_id, patient_id, t) ==
    { i \in Indexes(appts) :
        /\ Overlap(appts[i], [datetime |-> t])
        /\ appts[i].doctor_id = doctor_id
        /\ patient_id # NULL => appts[i].patient_id = patient_id }

\* the conflicting appointments the execution that produced res was to find
FoundConflicts(appts, res) ==
    IF res.op = "schedule_appointment" /\ res.err # "past"
        THEN Conflicting(appts, res.doctor_id, NULL, res.t)
    ELSE IF res.op = "_schedule_appointment"
        THEN Conflicting(appts, res.doctor_id, res.patient_id, res.t)
    ELSE {}

\* C15: a schedule_appointment execution that finds a conflicting appointment
\* returns the structured not-available failure and leaves the appointments
\* table and the consultations (doctor_id, status) as they were.
C15_ConflictLeavesTablesAlone ==
    [][FoundConflicts(appointments, last') # {}
        => /\ ~ last'.ok /\ last'.err = "not_available"
           /\ appointments' = appointments
           /\ consultations' = consultations]_vars

\* C15 witness: a booking was refused for a conflict while the requester's
\* consultation has no doctor, and it still has none.
C15_Witness ==
    /\ last.op = "schedule_appointment" /\ last.err = "not_available"
    /\ FoundConflicts(appointments, last) # {}
    /\ consultations[last.c].doctor_id = NULL
    /\ consultations[last.c].status = "pending"

-----------------------------------------------------------------------------
(* The transcript *)

\* the sender roles of the messages turn k has persisted, in creation order
TurnRoles(k) ==
    LET OfTurn(m) == m.turn = k
        rows == SelectSeq(messages, OfTurn)
    IN  [i \in 1 .. Len(rows) |-> rows[i].sender_role]

\* C16: turns only append to the transcript, leaving every persisted message
\* as it was; and a turn that has completed has added exactly one patient
\* message followed by exactly one agent message, both of its consultation.
C16_TurnsAppendOnePair ==
    /\ [][/\ Len(messages') >= Len(messages)
          /\ SubSeq(messages', 1, Len(messages)) = messages]_vars
    /\ [](\A k \in DOMAIN turns :
            turns[k].pc = "done" =>
                /\ TurnRoles(k) = <<"patient", "aura_agent">>
                /\ \A i \in Indexes(messages) :
                      messages[i].turn = k => messages[i].consultation_id = turns[k].c)

\* C17: a turn in which a commit failed (of the patient message, of a booking
\* or of the agent reply) is reported to the caller as failed, not as a normal
\* reply, and keeps no uncommitted row.
C17_CommitFailureFailsTurn ==
    \A k \in DOMAIN turns :
        (turns[k].commit_failed /\ turns[k].pc \in {"done", "failed"})
            => turns[k].pc = "failed" /\ turns[k].pending = <<>>

-----------------------------------------------------------------------------
(* Structured output *)

\* C18: for a turn that returned on a policy text, when that text holds a
\* well-formed risk-assessment block the returned text holds no block and
\* the returned record is the one parsed from the block; when it holds none,
\* the record is null and the text is returned as it was.
C18_ExtractionRoundTrip ==
    \A k \in DOMAIN turns :
        (turns[k].pc = "done" /\ ~ turns[k].policy_failed /\ turns[k].text # <<>>)
            => IF HasBlock(turns[k].text)
               THEN ~ HasBlock(turns[k].reply) /\ turns[k].risk = "parsed"
               ELSE turns[k].reply = turns[k].text /\ turns[k].risk = "null"

-----------------------------------------------------------------------------
(* SpecSurge: SurgeService.compute_daily_predictions, one database session
   per execution; the executions interleave at their awaits. *)

WindowDays == 7
ConsultationWindow == 30
NSurgeRuns == 2
MaxSurgeStarts == 2

SurgeSlots == 1 .. NSurgeRuns
SurgeCities == { "Delhi", "Mumbai" }

\* what get_aqi_data, get_weather_data and get_festival_calendar returned
SurgeInputs ==
    { [aqi |-> 120, weather |-> "clear", festivals |-> {}],
      [aqi |-> 250, weather |-> "haze",
       festivals |-> { [date |-> Tomorrow, historical_opd_increase |-> 25] }] }

\* pred_date.weekday(): 0 is Monday, 5 and 6 are the weekend
Weekday(d) == d % 7

FestivalEvents(inp, d) == { f \in inp.festivals : f.date = d }

FestivalImpact(inp, d) ==
    IF FestivalEvents(inp, d) = {} THEN 0
    ELSE (CHOOSE f \in FestivalEvents(inp, d) : TRUE).historical_opd_increase

AqiImpact(inp) ==
    IF inp.aqi > 300 THEN 60
    ELSE IF inp.aqi > 200 THEN 40
    ELSE IF inp.aqi > 150 THEN 20
    ELSE 0

WeekendFactor(d) == IF Weekday(d) >= 5 THEN 0 - 20 ELSE 0

TotalIncrease(inp, d) == FestivalImpact(inp, d) + AqiImpact(inp) + WeekendFactor(d)

\* int(base_volume * share * (1 + increase / 100)) with base_volume = n / 30,
\* share in hundredths and increase in halves of a percent
Department(n, share, twice_increase) ==
    [baseline |-> (n * share) \div (ConsultationWindow * 100),
     predicted |-> (n * share * (200 + twice_increase)) \div (ConsultationWindow * 100 * 200),
     twicePercentageIncrease |-> twice_increase]

FootfallForecast(n, inp, d) ==
    [emergency_medicine |-> Department(n, 30, 2 * TotalIncrease(inp, d)),
     pulmonology |-> Department(n, 20, 2 * TotalIncrease(inp, d) + AqiImpact(inp)),
     cardiology |-> Department(n, 15, 2 * TotalIncrease(inp, d)),
     general_medicine |-> Department(n, 35, 2 * TotalIncrease(inp, d))]

CalculateStaffingNeeds(footfall) ==
    [nurses |-> 50, doctors |-> 20, support_staff |-> 30]

CalculateSupplyNeeds(footfall, inp) ==
    IF inp.aqi > 200 THEN { "respiratory" } ELSE {}

\* the columns written when a row is found
UpdatedColumns(n, inp, d) ==
    [footfall_forecast |-> FootfallForecast(n, inp, d),
     aqi_data |-> inp.aqi,
     weather_data |-> inp.weather,
     festival_events |-> FestivalEvents(inp, d)]

\* SurgePrediction(city=..., date=..., ...)
NewSurgePrediction(n, city, inp, d) ==
    [city |-> city, date |-> d, hospital_id |-> NULL,
     footfall_forecast |-> FootfallForecast(n, inp, d),
     aqi_data |-> inp.aqi,
     weather_data |-> inp.weather,
     festival_events |-> FestivalEvents(inp, d),
     staffing_needs |-> CalculateStaffingNeeds(FootfallForecast(n, inp, d)),
     supply_needs |-> CalculateSupplyNeeds(FootfallForecast(n, inp, d), inp)]

\* select(SurgePrediction).where(city == city, date == pred_date)
ExistingPredictions(rows, city, d) ==
    { i \in Indexes(rows) : rows[i].city = city /\ rows[i].date = d }

IdleRun ==
    [pc |-> "idle", city |-> "", inp |-> [aqi |-> 0, weather |-> "", festivals |-> {}],
     n |-> 0, i |-> 0, adds |-> <<>>, sets |-> {}, starts |-> 0, log |-> {}]

InitSurge ==
    /\ appointments = <<>>
    /\ consultations = InitConsultations
    /\ messages = <<>>
    /\ last = NoResult
    /\ listed = [c \in DOMAIN InitConsultations |-> {}]
    /\ bookers = <<>>
    /\ turns = <<>>
    /\ surge_predictions = <<>>
    /\ surge_runs = [k \in SurgeSlots |-> IdleRun]
    /\ deletes = <<>>

\* lines 26-44: the inputs are fetched and the consultations counted
SurgeBegin(k) ==
    \E city \in SurgeCities, inp \in SurgeInputs :
        /\ surge_runs[k].pc \in { "idle", "done", "failed" }
        /\ surge_runs[k].starts < MaxSurgeStarts
        /\ surge_runs' = [surge_runs EXCEPT ![k] =
               [@ EXCEPT !.pc = "days", !.city = city, !.inp = inp,
                         !.n = Cardinality(DOMAIN consultations),
                         !.i = 0, !.adds = <<>>, !.sets = {}, !.starts = @ + 1]]
        /\ UNCHANGED <<appointments, consultations, messages, last, listed, bookers, turns, surge_predictions, deletes>>

\* lines 48-120, one pass of the loop: select the row of the day, then change
\* it or add a new one; scalar_one_or_none raises when it finds two rows
SurgeStoreDay(k) ==
    LET r == surge_runs[k]
        d == Today + r.i
        found == ExistingPredictions(surge_predictions, r.city, d)
        next_pc == IF r.i + 1 = WindowDays THEN "commit" ELSE "days"
    IN  /\ r.pc = "days"
        /\ surge_runs' = [surge_runs EXCEPT ![k] =
               IF Cardinality(found) > 1
               THEN [r EXCEPT !.pc = "failed", !.adds = <<>>, !.sets = {}]
               ELSE IF found # {}
               THEN [r EXCEPT !.pc = next_pc, !.i = @ + 1,
                              !.sets = @ \cup { [id |-> CHOOSE x \in found : TRUE,
                                                 cols |-> UpdatedColumns(r.n, r.inp, d)] }]
               ELSE [r EXCEPT !.pc = next_pc, !.i = @ + 1,
                              !.adds = Append(@, NewSurgePrediction(r.n, r.city, r.inp, d))]]
        /\ UNCHANGED <<appointments, consultations, messages, last, listed, bookers, turns, surge_predictions, deletes>>

\* the row after the pending changes of one session are written to it
WithSets(row, id, sets) ==
    IF \E s \in sets : s.id = id
    THEN LET c == (CHOOSE s \in sets : s.id = id).cols
         IN  [row EXCEPT !.footfall_forecast = c.footfall_forecast,
                         !.aqi_data = c.aqi_data,
                         !.weather_data = c.weather_data,
                         !.festival_events = c.festival_events]
    ELSE row

\* line 122: await self.db.commit()
SurgeCommit(k) ==
    LET r == surge_runs[k]
    IN  /\ r.pc = "commit"
        /\ surge_predictions' =
               [i \in Indexes(surge_predictions) |-> WithSets(surge_predictions[i], i, r.sets)] \o r.adds
        /\ surge_runs' = [surge_runs EXCEPT ![k] =
               [r EXCEPT !.pc = "done", !.adds = <<>>, !.sets = {},
                         !.log = @ \cup { [city |-> r.city, inp |-> r.inp] }]]
        /\ UNCHANGED <<appointments, consultations, messages, last, listed, bookers, turns, deletes>>

NextSurge ==
    \E k \in SurgeSlots :
        \/ SurgeBegin(k)
        \/ SurgeStoreDay(k)
        \/ SurgeCommit(k)

SpecSurge == InitSurge /\ [][NextSurge]_vars

\* no execution of compute_daily_predictions is under way
SurgeQuiescent == \A k \in SurgeSlots : surge_runs[k].pc \in { "idle", "done", "failed" }

\* the inputs of the runs that committed for a city
CommittedInputs(city) ==
    { e.inp : e \in { x \in UNION { surge_runs[k].log : k \in SurgeSlots } : x.city = city } }

\* C19: once the runs for a city have finished, all with the same inputs,
\* every date of the 7-day window has exactly one row for the city, and the
\* row is the one a single run stores; two interleaved runs included.
C19_IdempotentUpsert ==
    \A city \in SurgeCities, inp \in SurgeInputs :
        (SurgeQuiescent /\ CommittedInputs(city) = { inp })
            => \A i \in 0 .. (WindowDays - 1) :
                   /\ Cardinality(ExistingPredictions(surge_predictions, city, Today + i)) = 1
                   /\ \A x \in ExistingPredictions(surge_predictions, city, Today + i) :
                          surge_predictions[x] =
                              NewSurgePrediction(Cardinality(DOMAIN InitConsultations), city, inp, Today + i)

-----------------------------------------------------------------------------
(* The loop bound *)

\* C20: a turn whose policy asks for a tool round beyond the loop bound ends
\* at its next step with the fallback reply made from the last tool result,
\* returned normally: no further policy call is made and no error is raised.
C20_BoundExceededEndsInFallback ==
    [][\A k \in DOMAIN turns :
           (/\ k \in DOMAIN turns'
            /\ turns[k].pc \in { "agent", "tools" }
            /\ turns[k].steps >= RecursionLimit
            /\ turns'[k] # turns[k])
               => /\ turns'[k].pc = "done"
                  /\ turns'[k].err = ""
                  /\ turns'[k].reply = FallbackText(turns[k].fallback)
                  /\ turns'[k].policy_calls = turns[k].policy_calls]_vars

-----------------------------------------------------------------------------
(* The follow-up call *)

\* C21: a turn that returned after running at least one tool, and whose last
\* policy response of the loop had empty text, made exactly one follow-up
\* policy call before any templated fallback text was used.
C21_EmptyTextGetsOneFollowUp ==
    \A k \in DOMAIN turns :
        (turns[k].pc = "done" /\ turns[k].rounds > 0 /\ turns[k].last_empty)
            => turns[k].followups = 1

-----------------------------------------------------------------------------
(* The audit list *)

\* C22: the tool_calls list a completed turn returns has one entry for every
\* tool the turn executed, the last entry naming the last tool executed and
\* carrying that tool's result.
C22_AuditListsEveryTool ==
    \A k \in DOMAIN turns :
        (turns[k].pc = "done" /\ ~ turns[k].policy_failed)
            => /\ Len(turns[k].audit) = turns[k].rounds
               /\ turns[k].rounds > 0
                      => turns[k].audit[Len(turns[k].audit)].result = last

-----------------------------------------------------------------------------
(* The policy context *)

\* the rows the consultation of turn k had before the turn, then the turn's
\* user message
FullTranscript(k) ==
    LET Before(m) == m.consultation_id = turns[k].c /\ m.turn # k
        rows == SelectSeq(messages, Before)
    IN  [i \in Indexes(rows) |-> ContextEntry(rows[i])]
            \o << [sender_role |-> "patient", content |-> <<"w">>] >>

\* C23: the context handed to the policy at the start of a turn is every
\* message persisted for the consultation, of every sender role, in creation
\* order, followed by the current user message exactly once.
C23_ContextIsFullTranscript ==
    \A k \in DOMAIN turns :
        turns[k].policy_calls > 0 => turns[k].context = FullTranscript(k)

-----------------------------------------------------------------------------
(* The patient history tool *)

\* C24: fetch_patient_history run during a turn for patient p is executed
\* with patient_id = p, whatever patient_id the policy supplied: the
\* documents and consultations read are those of p.
C24_HistoryReadsCallerPatient ==
    \A k \in DOMAIN turns :
        (turns[k].pc # "idle" /\ last.op = "_fetch_patient_history")
            => /\ last.patient_id = turns[k].p
               /\ last.documents = { d.id : d \in { x \in Documents : x.patient_id = turns[k].p } }

-----------------------------------------------------------------------------
(* Several tool calls in one response *)

\* C25: when the policy is called again after the tools of a response have
\* run, every tool requested in that response has been executed once and the
\* context of the call holds one tool-result turn for each of them, in order.
C25_EveryToolResultInjected ==
    \A k \in DOMAIN turns :
        turns[k].followups > 0
            => /\ turns[k].more = <<>> /\ turns[k].req = NoCall
               /\ turns[k].injected = turns[k].audit

-----------------------------------------------------------------------------
(* SpecDates: check_doctor_availability resolving a date argument that has
   no year, for every current date of two years *)

StrptimeYear == 1900
FirstYear == 2027
NYears == 2

Months == 1 .. 12

IsLeap(y) == y % 4 = 0 /\ (y % 100 # 0 \/ y % 400 = 0)

DaysInMonth(y, m) ==
    IF m = 2 THEN (IF IsLeap(y) THEN 29 ELSE 28)
    ELSE IF m \in { 4, 6, 9, 11 } THEN 30
    ELSE 31

\* date_type(y, m, d) raises ValueError unless the day exists
ValidDate(y, m, d) == m \in Months /\ d >= 1 /\ d <= DaysInMonth(y, m)

Date(y, m, d) == [year |-> y, month |-> m, day |-> d]

\* a < b on dates
DateBefore(a, b) ==
    \/ a.year < b.year
    \/ a.year = b.year /\ a.month < b.month
    \/ a.year = b.year /\ a.month = b.month /\ a.day < b.day

DayChoices == { 1, 15, 28, 29, 30, 31 }

\* date_type.today()
TodayChoices ==
    { x \in [year : FirstYear .. (FirstYear + NYears - 1), month : Months, day : DayChoices] :
          ValidDate(x.year, x.month, x.day) }

\* date arguments without a year: "30 Nov" / "30 November" (form name, a the
\* day and b the month) and "30/11" or "11/30" (form slash, a/b)
YearlessChoices ==
    [form : { "name", "slash" }, a : 1 .. 31, b : 1 .. 12] \cup
    [form : { "slash" }, a : 1 .. 12, b : { 15, 28, 29, 30, 31 }]

NoParse == [month |-> 0, day |-> 0]

\* datetime.strptime(date, fmt) for the formats "%d %b", "%d %B", "%d/%m",
\* "%m/%d", in that order: the first that parses, the year being 1900
StrptimeYearless(arg) ==
    IF arg.form = "name"
        THEN IF ValidDate(StrptimeYear, arg.b, arg.a)
             THEN [month |-> arg.b, day |-> arg.a] ELSE NoParse
    ELSE IF ValidDate(StrptimeYear, arg.b, arg.a)
        THEN [month |-> arg.b, day |-> arg.a]
    ELSE IF ValidDate(StrptimeYear, arg.a, arg.b)
        THEN [month |-> arg.a, day |-> arg.b]
    ELSE NoParse

NoTargetDate == Date(0, 0, 0)

\* "If still not parsed, try with current year appended": the current year,
\* or the next one when that date is before today
ResolveYearless(today, arg) ==
    LET parsed == StrptimeYearless(arg)
    IN  IF parsed = NoParse \/ ~ ValidDate(today.year, parsed.month, parsed.day)
            THEN NoTargetDate
        ELSE IF DateBefore(Date(today.year, parsed.month, parsed.day), today)
            THEN IF ValidDate(today.year + 1, parsed.month, parsed.day)
                 THEN Date(today.year + 1, parsed.month, parsed.day)
                 ELSE NoTargetDate
        ELSE Date(today.year, parsed.month, parsed.day)

InitDates ==
    /\ appointments = <<>>
    /\ consultations = InitConsultations
    /\ messages = <<>>
    /\ last = NoResult
    /\ listed = [c \in DOMAIN InitConsultations |-> {}]
    /\ bookers = <<>>
    /\ turns = <<>>
    /\ surge_predictions = <<>>
    /\ surge_runs = <<>>
    /\ deletes = <<>>

\* check_doctor_availability called with a date that has no year
CheckAvailabilityYearless ==
    /\ last = NoResult
    /\ \E today \in TodayChoices, arg \in YearlessChoices :
        /\ last' = [op |-> "check_doctor_availability", today |-> today, date |-> arg,
                    target_date |-> ResolveYearless(today, arg),
                    ok |-> ResolveYearless(today, arg) # NoTargetDate]
        /\ UNCHANGED <<appointments, consultations, messages, listed, bookers, turns, surge_predictions, surge_runs, deletes>>

NextDates == CheckAvailabilityYearless

SpecDates == InitDates /\ [][NextDates]_vars

\* the month and day a year-less argument names: day then month, or month
\* then day when the first number cannot be a day of the second
NamedDay(arg) ==
    IF arg.form = "name" \/ (arg.b \in Months /\ arg.a <= DaysInMonth(2000, arg.b))
    THEN [month |-> arg.b, day |-> arg.a]
    ELSE [month |-> arg.a, day |-> arg.b]

\* the argument names a day some year has
NamesADay(arg) ==
    NamedDay(arg).month \in Months /\ NamedDay(arg).day <= DaysInMonth(2000, NamedDay(arg).month)

\* d is an occurrence of the named month/day, not before today, and no
\* earlier such occurrence exists
NearestOccurrence(today, arg, d) ==
    /\ d.month = NamedDay(arg).month /\ d.day = NamedDay(arg).day
    /\ ~ DateBefore(d, today)
    /\ \A y \in today.year .. (d.year - 1) :
           ValidDate(y, d.month, d.day) => DateBefore(Date(y, d.month, d.day), today)

\* C26: a date argument without a year that names a day is resolved to the
\* nearest occurrence of that month/day not before today; the resolved date
\* is never earlier than today and less than one year after today.
C26_YearlessResolvesToNearest ==
    (last.op = "check_doctor_availability" /\ NamesADay(last.date))
        => /\ last.ok
           /\ NearestOccurrence(last.today, last.date, last.target_date)
           /\ ~ DateBefore(last.target_date, last.today)
           /\ DateBefore(last.target_date,
                         Date(last.today.year + 1, last.today.month, last.today.day))

-----------------------------------------------------------------------------
(* SpecParse: PatientAgent._parse_risk_assessment on the text between the
   delimiters, a sequence of "KEY: value" lines *)

MaxLines == 3

RiskKeys == { "RISK_LEVEL", "PHYSICAL_EXAM", "DEPARTMENT", "DOCTOR_LEVEL", "REASONING" }

\* the keys searched with re.I
IgnoreCaseKeys == { "RISK_LEVEL", "PHYSICAL_EXAM", "DOCTOR_LEVEL" }

FieldOf(key) ==
    IF key = "RISK_LEVEL" THEN "risk_level"
    ELSE IF key = "PHYSICAL_EXAM" THEN "needs_physical_exam"
    ELSE IF key = "DEPARTMENT" THEN "suggested_department"
    ELSE IF key = "DOCTOR_LEVEL" THEN "doctor_level"
    ELSE "reasoning"

ValueChoices == { "High", "high" }

\* a line: its key, how the key is written, its value (one word)
LineChoices == [key : RiskKeys, written : { "upper", "lower" }, value : ValueChoices]

RECURSIVE SeqsUpTo(_, _)
SeqsUpTo(S, n) ==
    IF n = 0 THEN { <<>> }
    ELSE SeqsUpTo(S, n - 1) \cup
         { Append(s, x) : s \in { q \in SeqsUpTo(S, n - 1) : Len(q) = n - 1 }, x \in S }

BlockChoices == SeqsUpTo(LineChoices, MaxLines)

\* str.lower()
Lower(v) == IF v = "High" THEN "high" ELSE v

\* re.search(r"KEY:", text[, re.I]): the lines the pattern of the key matches
MatchingLines(text, key) ==
    { i \in Indexes(text) :
          /\ text[i].key = key
          /\ key \in IgnoreCaseKeys \/ text[i].written = "upper" }

NullField == "null"

\* one entry of the returned dict: group(1) of the first match, lower-cased for
\* the \w+ fields and stripped for the others, or None without a match
ParseField(text, key) ==
    IF MatchingLines(text, key) = {} THEN NullField
    ELSE LET i == CHOOSE x \in MatchingLines(text, key) :
                      \A y \in MatchingLines(text, key) : x <= y
         IN  IF key \in IgnoreCaseKeys THEN Lower(text[i].value) ELSE text[i].value

ParseRiskAssessment(text) ==
    [risk_level |-> ParseField(text, "RISK_LEVEL"),
     needs_physical_exam |-> ParseField(text, "PHYSICAL_EXAM"),
     suggested_department |-> ParseField(text, "DEPARTMENT"),
     doctor_level |-> ParseField(text, "DOCTOR_LEVEL"),
     reasoning |-> ParseField(text, "REASONING")]

InitParse ==
    /\ appointments = <<>>
    /\ consultations = InitConsultations
    /\ messages = <<>>
    /\ last = NoResult
    /\ listed = [c \in DOMAIN InitConsultations |-> {}]
    /\ bookers = <<>>
    /\ turns = <<>>
    /\ surge_predictions = <<>>
    /\ surge_runs = <<>>
    /\ deletes = <<>>

ParseBlock ==
    /\ last = NoResult
    /\ \E text \in BlockChoices :
        /\ last' = [op |-> "_parse_risk_assessment", text |-> text,
                    record |-> ParseRiskAssessment(text)]
        /\ UNCHANGED <<appointments, consultations, messages, listed, bookers, turns, surge_predictions, surge_runs, deletes>>

NextParse == ParseBlock

SpecParse == InitParse /\ [][NextParse]_vars

\* the lines of a block that carry the key, however it is written
LinesWithKey(text, key) == { i \in Indexes(text) : text[i].key = key }

\* C27: for each of the five keys, written in any case, the parsed field is
\* null exactly when no line of the block carries the key, and otherwise
\* holds the value of the first line that carries it.
C27_KeysAnyCaseFirstWins ==
    last.op = "_parse_risk_assessment"
        => \A key \in RiskKeys :
               LET at == LinesWithKey(last.text, key)
                   got == last.record[FieldOf(key)]
               IN  /\ (got = NullField) <=> (at = {})
                   /\ at # {} =>
                          \E i \in at :
                              /\ \A j \in at : i <= j
                              /\ Lower(got) = Lower(last.text[i].value)

-----------------------------------------------------------------------------
(* SpecForecast: the forecast compute_daily_predictions makes for one day of
   the window *)

AqiChoices == { 100, 150, 151, 200, 201, 300, 301 }

ForecastInputs ==
    { [aqi |-> a, weather |-> "clear", festivals |-> f] :
          a \in AqiChoices,
          f \in { {}, { [date |-> Tomorrow, historical_opd_increase |-> 25] } } }

\* len(consultations) of the last 30 days
VolumeChoices == { 2, 300, 3000 }

InitForecast ==
    /\ appointments = <<>>
    /\ consultations = InitConsultations
    /\ messages = <<>>
    /\ last = NoResult
    /\ listed = [c \in DOMAIN InitConsultations |-> {}]
    /\ bookers = <<>>
    /\ turns = <<>>
    /\ surge_predictions = <<>>
    /\ surge_runs = <<>>
    /\ deletes = <<>>

\* one pass of "for i in range(7)" up to the forecast
ComputeForecast ==
    /\ last = NoResult
    /\ \E inp \in ForecastInputs, n \in VolumeChoices, i \in 0 .. (WindowDays - 1) :
        /\ last' = [op |-> "footfall_forecast", date |-> Today + i, inp |-> inp, n |-> n,
                    footfall_forecast |-> FootfallForecast(n, inp, Today + i)]
        /\ UNCHANGED <<appointments, consultations, messages, listed, bookers, turns, surge_predictions, surge_runs, deletes>>

NextForecast == ComputeForecast

SpecForecast == InitForecast /\ [][NextForecast]_vars

\* the percent increase of a day as the sum of the three impacts, doubled
TwiceExpectedIncrease(inp, d) ==
    LET festival == IF \E f \in inp.festivals : f.date = d
                    THEN (CHOOSE f \in inp.festivals : f.date = d).historical_opd_increase
                    ELSE 0
        aqi == IF inp.aqi > 300 THEN 60
               ELSE IF inp.aqi > 200 THEN 40
               ELSE IF inp.aqi > 150 THEN 20
               ELSE 0
        weekend == IF Weekday(d) \in { 5, 6 } THEN 0 - 20 ELSE 0
    IN  2 * (festival + aqi + weekend)

\* C28: for every predicted day and every department, the stored percent
\* increase is festival_impact + aqi_impact + weekend_adjustment of the day
\* (60, 40, 20 or 0 for AQI above 300, 200, 150 or otherwise; -20 at the
\* weekend), the same for all departments.
C28_IncreaseIsSumOfImpacts ==
    last.op = "footfall_forecast"
        => \A dep \in DOMAIN last.footfall_forecast :
               last.footfall_forecast[dep].twicePercentageIncrease
                   = TwiceExpectedIncrease(last.inp, last.date)

-----------------------------------------------------------------------------
(* SpecDelete: DELETE /consultations/{id} while a turn of the consultation's
   chat is under way; each request has its own session, and a session reads
   what is committed at the time of each statement *)

DeleteSlots == { 1 }

IdleDelete ==
    [pc |-> "idle", c |-> NULL, user |-> NULL, bulk |-> {}, cascade |-> {}, status |-> 0]

InitDelete ==
    /\ appointments = <<>>
    /\ consultations = InitConsultations
    /\ messages \in EarlierTranscripts
    /\ last = NoResult
    /\ listed = [c \in DOMAIN InitConsultations |-> {}]
    /\ bookers = <<>>
    /\ turns = [k \in TurnSlots |-> IdleTurn]
    /\ surge_predictions = <<>>
    /\ surge_runs = <<>>
    /\ deletes = [d \in DeleteSlots |-> IdleDelete]

\* the committed rows of a consultation, by position
MessagesOf(msgs, c) == { i \in Indexes(msgs) : msgs[i].consultation_id = c }

\* the rows that still reference the consultation when it is deleted
Referencing(msgs, c, gone) == MessagesOf(msgs, c) \ gone

RECURSIVE DropRows(_, _, _)
DropRows(msgs, gone, i) ==
    IF i > Len(msgs) THEN <<>>
    ELSE (IF i \in gone THEN <<>> ELSE << msgs[i] >>) \o DropRows(msgs, gone, i + 1)

\* the consultation is selected (404) and the access rules are applied (403)
DeleteBegin(d) ==
    \E c \in DOMAIN InitConsultations \cup { MissingConsultation }, u \in UserIds :
        /\ deletes[d].pc = "idle"
        /\ deletes' = [deletes EXCEPT ![d] =
               IF c \notin DOMAIN consultations
                   THEN [@ EXCEPT !.pc = "failed", !.c = c, !.user = u, !.status = 404]
               ELSE IF Users[u].role = "patient" /\ consultations[c].patient_id # u
                   THEN [@ EXCEPT !.pc = "failed", !.c = c, !.user = u, !.status = 403]
               ELSE IF Users[u].role = "doctor"
                   THEN [@ EXCEPT !.pc = "failed", !.c = c, !.user = u, !.status = 403]
               ELSE [@ EXCEPT !.pc = "delete_messages", !.c = c, !.user = u]]
        /\ UNCHANGED <<appointments, consultations, messages, last, listed, bookers, turns, surge_predictions, surge_runs>>

\* delete(Message).where(Message.consultation_id == consultation_id), not yet
\* committed
DeleteMessages(d) ==
    /\ deletes[d].pc = "delete_messages"
    /\ deletes' = [deletes EXCEPT ![d] =
           [@ EXCEPT !.pc = "delete", !.bulk = MessagesOf(messages, deletes[d].c)]]
    /\ UNCHANGED <<appointments, consultations, messages, last, listed, bookers, turns, surge_predictions, surge_runs>>

\* await db.delete(consultation): the cascade "all, delete-orphan" loads the
\* messages the consultation has now and marks them for deletion
DeleteConsultation(d) ==
    /\ deletes[d].pc = "delete"
    /\ deletes' = [deletes EXCEPT ![d] =
           [@ EXCEPT !.pc = "commit",
                     !.cascade = MessagesOf(messages, deletes[d].c) \ deletes[d].bulk]]
    /\ UNCHANGED <<appointments, consultations, messages, last, listed, bookers, turns, surge_predictions, surge_runs>>

\* await db.commit(): the deletes are flushed and committed; the foreign key
\* of a message that is not among them makes the commit fail, which rolls
\* everything back
DeleteCommit(d) ==
    LET r == deletes[d]
        gone == r.bulk \cup r.cascade
    IN  /\ r.pc = "commit"
        /\ IF Referencing(messages, r.c, gone) = {}
           THEN /\ messages' = DropRows(messages, gone, 1)
                /\ consultations' = [x \in DOMAIN consultations \ { r.c } |-> consultations[x]]
                /\ deletes' = [deletes EXCEPT ![d] = [r EXCEPT !.pc = "done", !.status = 200]]
           ELSE /\ UNCHANGED <<messages, consultations>>
                /\ deletes' = [deletes EXCEPT ![d] = [r EXCEPT !.pc = "failed", !.status = 500]]
        /\ UNCHANGED <<appointments, last, listed, bookers, turns, surge_predictions, surge_runs>>

NextDelete ==
    \/ \E d \in DeleteSlots :
        \/ DeleteBegin(d)
        \/ DeleteMessages(d)
        \/ DeleteConsultation(d)
        \/ DeleteCommit(d)
    \/ \E k \in TurnSlots :
        \/ TurnBegin(k)
        \/ TurnSaveUser(k)
        \/ LGCallAgentWith(k, { NoCall })
        \/ LGReply(k)
        \/ PACallPolicyWith(k, { NoCall })
        \/ PAReply(k)

SpecDelete == InitDelete /\ [][NextDelete]_vars

\* C29: in every reachable state each persisted message references an
\* existing consultation: a delete that goes through takes all the messages
\* of the consultation with it, also when a turn of that consultation appends
\* messages while the delete is under way.
C29_MessagesReferenceConsultation ==
    \A i \in Indexes(messages) : messages[i].consultation_id \in DOMAIN consultations

\* a delete went through that had to take a message a concurrent turn had
\* appended after the bulk delete, and the turn went on to a reply whose
\* row the foreign key refused
C29_Witness ==
    \E d \in DeleteSlots, k \in TurnSlots :
        /\ deletes[d].pc = "done" /\ deletes[d].cascade # {}
        /\ turns[k].c = deletes[d].c /\ turns[k].pc = "done"
        /\ turns[k].commit_failed

-----------------------------------------------------------------------------
(* Where the reply comes from *)

\* C30: the reply a turn returns and stores was produced by a policy call
\* or by the fallback of that same turn; it is never the content of an agent
\* message of an earlier turn, also when the final policy response of the
\* turn has empty text.
C30_ReplyIsFromThisTurn ==
    \A k \in DOMAIN turns :
        turns[k].pc = "done" => turns[k].reply_source # "history"

(***************************************************************************)
(* C31: once a consultation has an assigned doctor, no execution of        *)
(* handoff_to_doctor or schedule_appointment changes that doctor_id, also  *)
(* when two executions for the same consultation interleave.               *)
(* Each request works in its own session: schedule_appointment reads the   *)
(* consultation (lines 340-343), decides on the assignment from what it    *)
(* read (line 345) and writes it at its commit (line 364), with no lock    *)
(* and no re-read between the two.                                         *)
(***************************************************************************)
C31_AssignedDoctorNeverChanges ==
    [][\A c \in DOMAIN consultations :
          consultations[c].doctor_id # NULL
              => /\ c \in DOMAIN consultations'
                 /\ consultations'[c].doctor_id = consultations[c].doctor_id]_vars

(***************************************************************************)
(* C32: every appointment created by the agent's schedule_appointment tool *)
(* references an existing user of role doctor and an existing patient, and *)
(* a doctor_id naming a missing user or a user who is not a doctor is      *)
(* rejected: no row is inserted, and a row that is inserted carries the    *)
(* doctor_id of the call, never another doctor's.                          *)
(***************************************************************************)
C32_CreatedRowsNameDoctorAndPatient ==
    [][/\ \A i \in Indexes(appointments') \ Indexes(appointments) :
            /\ last'.op = "schedule_appointment" /\ last'.ok
            /\ appointments'[i].doctor_id = last'.doctor_id
            /\ appointments'[i].doctor_id \in Doctors
            /\ appointments'[i].patient_id \in UserIds
       /\ (last'.op = "schedule_appointment" /\ last'.doctor_id \notin Doctors)
            => /\ ~ last'.ok
               /\ appointments' = appointments
               /\ consultations' = consultations]_vars

\* C32 witness: after the tool booked a doctor for a consultation, a call
\* naming a missing user or a patient as the doctor has just been rejected.
C32_Witness ==
    /\ last.op = "schedule_appointment"
    /\ last.err \in {"doctor_missing", "not_a_doctor"}
    /\ \E i \in Indexes(appointments) :
        /\ appointments[i].consultation_id # NULL
        /\ appointments[i].doctor_id \in Doctors

(***************************************************************************)
(* C33: every appointment created by the agent's schedule_appointment tool *)
(* starts on the slot grid that check_doctor_availability offers: at a     *)
(* 30-minute-aligned time within business hours [09:00, 17:00).            *)
(* The tool parses datetime_str (lines 304-307), refuses past dates and    *)
(* overlaps, and inserts the parsed instant as it is (lines 353-360).      *)
(***************************************************************************)
C33_CreatedRowsStartOnGrid ==
    (last.op = "schedule_appointment" /\ last.ok)
        => appointments[last.appointment_id].datetime
              \in GridInstants(DateOf(appointments[last.appointment_id].datetime))

(***************************************************************************)
(* C34: a successful schedule_appointment in a consultation without an     *)
(* assigned doctor sets the consultation's doctor_id to the booked doctor  *)
(* and its status to in_progress in the same commit as the appointment     *)
(* insert; after every execution, a failed commit included, a consultation *)
(* has that assignment if and only if it has the appointment row.          *)
(***************************************************************************)
HasAppointment(appts, c) == \E i \in Indexes(appts) : appts[i].consultation_id = c

C34_AssignmentCommitsWithAppointment ==
    [][/\ \A c \in DOMAIN consultations' :
            consultations'[c].doctor_id # NULL <=> HasAppointment(appointments', c)
       /\ \A c \in DOMAIN consultations :
            (/\ last'.op = "schedule_appointment" /\ last'.c = c
             /\ consultations[c].doctor_id = NULL)
                => IF last'.ok
                   THEN /\ Len(appointments') = Len(appointments) + 1
                        /\ appointments'[Len(appointments')].consultation_id = c
                        /\ appointments'[Len(appointments')].doctor_id = last'.doctor_id
                        /\ consultations'[c].doctor_id = last'.doctor_id
                        /\ consultations'[c].status = "in_progress"
                   ELSE /\ appointments' = appointments
                        /\ consultations' = consultations]_vars

\* C34 witness: one consultation was booked and assigned, and the commit of a
\* valid booking in the other consultation has just failed, leaving it with
\* neither the appointment nor the assignment.
C34_Witness ==
    /\ last.op = "schedule_appointment" /\ last.err = "exception"
    /\ last.doctor_id \in Doctors /\ DateOf(last.t) >= Today
    /\ consultations[last.c].doctor_id = NULL
    /\ ~ HasAppointment(appointments, last.c)
    /\ \E c \in DOMAIN consultations :
        /\ consultations[c].doctor_id # NULL
        /\ consultations[c].status = "in_progress"
        /\ HasAppointment(appointments, c)

(***************************************************************************)
(* C35: the patient agent executes only the tools of its declared catalog: *)
(* a tool request of the policy naming a tool outside PatientAgent.TOOLS   *)
(* yields an error result and changes no persisted state.                  *)
(***************************************************************************)
\* the function names declared in PatientAgent.TOOLS
PatientAgentTools ==
    { "handoff_to_doctor", "get_available_doctors", "check_doctor_availability",
      "schedule_appointment", "fetch_patient_history" }

\* turn k runs the tool its policy requested
PAToolStep(k) ==
    /\ turns[k].agent = "pa" /\ turns[k].pc = "tools"
    /\ turns'[k] # turns[k]

C35_OnlyCatalogToolsRun ==
    [][\A k \in DOMAIN turns :
          (PAToolStep(k) /\ turns[k].req.name \notin PatientAgentTools)
              => /\ ~ last'.ok
                 /\ appointments' = appointments
                 /\ consultations' = consultations
                 /\ messages' = messages]_vars

-----------------------------------------------------------------------------
(* SpecPrescribe: executions of the agent's handoff_to_doctor and
   schedule_appointment tools, each in its own session and interleaved step by
   step, next to the doctor's POST /messages/prescription. *)

MaxPrescriptions == 2

\* schedule_appointment arguments of these executions: an existing doctor or a
\* patient's id, and one instant of today
PrescribeDoctorIds == Doctors \cup {1}
PrescribeDatetimeStrs == { [iso |-> TRUE, t |-> At(Today, 10, 0)] }

\* handoff_to_doctor up to the doctor query: the consultation lookup, the
\* already-assigned return, the patient and doctor lookups
HandoffLoad(k) ==
    \E conv \in Conversations :
        LET b == [bookers[k] EXCEPT !.c = conv.c, !.p = conv.p,
                                    !.began = consultations[conv.c].status]
        IN  /\ bookers[k].pc = "idle"
            /\ \E pick \in HandoffPicks(consultations, conv.c) :
                bookers' = [bookers EXCEPT ![k] =
                    IF ~ NeedsDoctor(consultations, conv.c)
                        THEN BookerDone(b, FALSE, "already_assigned")
                    ELSE IF pick = NULL
                        THEN BookerDone(b, FALSE, "no_doctor")
                    ELSE [b EXCEPT !.pc = "handoff_commit", !.doctor_id = pick,
                                   !.assign = TRUE]]
            /\ UNCHANGED <<appointments, consultations, messages, last, listed, turns, surge_predictions, surge_runs, deletes>>

\* consultation.doctor_id = doctor.id; consultation.status = "in_progress";
\* await db.commit()
HandoffCommit(k) ==
    \E commitOk \in BOOLEAN :
        LET b == bookers[k]
        IN  /\ b.pc = "handoff_commit"
            /\ IF commitOk
               THEN /\ consultations' = [consultations EXCEPT ![b.c].doctor_id = b.doctor_id,
                                                              ![b.c].status = "in_progress"]
                    /\ bookers' = [bookers EXCEPT ![k] = BookerDone(b, TRUE, "")]
               ELSE /\ bookers' = [bookers EXCEPT ![k] = BookerDone(b, FALSE, "exception")]
                    /\ UNCHANGED consultations
            /\ UNCHANGED <<appointments, messages, last, listed, turns, surge_predictions, surge_runs, deletes>>

\* POST /messages/prescription by doctor current_user
CreatePrescription ==
    \E current_user \in Doctors, c \in DOMAIN consultations \cup {MissingConsultation},
       commitOk \in BOOLEAN :
        LET R(ok, err) == Result("create_prescription", c, current_user, ok, err)
        IN  /\ Len(messages) < MaxPrescriptions
            /\ IF c \notin DOMAIN consultations
                   THEN /\ last' = R(FALSE, "404")
                        /\ UNCHANGED <<consultations, messages>>
               ELSE IF consultations[c].doctor_id # current_user
                   THEN /\ last' = R(FALSE, "403")
                        /\ UNCHANGED <<consultations, messages>>
               ELSE IF ~ commitOk
                   THEN /\ last' = R(FALSE, "500")
                        /\ UNCHANGED <<consultations, messages>>
               ELSE /\ last' = R(TRUE, "")
                    /\ messages' = Append(messages, MessageRow(c, "doctor", <<"w">>, 0))
                    /\ consultations' = [consultations EXCEPT ![c].status = "completed"]
            /\ UNCHANGED <<appointments, listed, bookers, turns, surge_predictions, surge_runs, deletes>>

NextPrescribe ==
    \/ \E k \in BookerIds :
        \/ BookValidateWith(k, Conversations, PrescribeDoctorIds, PrescribeDatetimeStrs)
        \/ BookConflictQuery(k)
        \/ BookLoadConsultation(k)
        \/ BookCommit(k)
        \/ HandoffLoad(k)
        \/ HandoffCommit(k)
    \/ CreatePrescription

SpecPrescribe == InitConc /\ [][NextPrescribe]_vars

(***************************************************************************)
(* C36: a consultation set to completed by the doctor's prescription does  *)
(* not leave completed through a later execution of handoff_to_doctor or   *)
(* schedule_appointment: an execution of either tool that begins when the  *)
(* consultation is completed changes no consultation, whatever runs beside *)
(* it.                                                                     *)
(***************************************************************************)
C36_CompletedSurvivesLaterTools ==
    [][\A k \in DOMAIN bookers :
          (bookers'[k] # bookers[k] /\ bookers[k].began = "completed")
              => consultations' = consultations]_vars

\* C36 witness: a schedule_appointment that began in a completed consultation
\* has booked, and the consultation is still completed with the doctor who
\* prescribed.
C36_Witness ==
    \E k \in DOMAIN bookers :
        /\ bookers[k].began = "completed" /\ bookers[k].pc = "done" /\ bookers[k].ok
        /\ HasAppointment(appointments, bookers[k].c)
        /\ consultations[bookers[k].c].status = "completed"
        /\ bookers[k].doctor_id # consultations[bookers[k].c].doctor_id

-----------------------------------------------------------------------------
(* SpecFrame: the agent's get_available_doctors, check_doctor_availability and
   schedule_appointment tools, one execution at a time, the agent of a patient
   whose user row is gone included. *)

FrameConversations == Conversations \cup { [c |-> 1, p |-> MissingUser] }

NextFrame ==
    \/ ToolGetAvailableDoctors
    \/ ToolCheckDoctorAvailability
    \/ ToolScheduleAppointmentWith(FrameConversations)

SpecFrame == InitBook /\ [][NextFrame]_vars

\* the failures of schedule_appointment returned before the conflict query:
\* missing doctor, user who is not a doctor, missing patient, past date, and
\* the exception branch (which datetime.fromisoformat's ValueError reaches)
RejectedEarly == {"doctor_missing", "not_a_doctor", "patient_missing", "past", "exception"}

(***************************************************************************)
(* C37: get_available_doctors and check_doctor_availability, and every     *)
(* schedule_appointment call rejected for a missing doctor, a user who is  *)
(* not a doctor, a missing patient, a past date or an unparseable          *)
(* datetime, leave the appointments, consultations and messages tables     *)
(* unchanged.                                                              *)
(***************************************************************************)
C37_ReadsAndRejectionsChangeNothing ==
    [][(\/ last'.op \in {"get_available_doctors", "check_doctor_availability"}
        \/ last'.op = "schedule_appointment" /\ last'.err \in RejectedEarly)
          => /\ appointments' = appointments
             /\ consultations' = consultations
             /\ messages' = messages]_vars

\* C37 witness: with an appointment booked and its consultation assigned, a
\* schedule_appointment for a past date has just been rejected.
C37_Witness ==
    /\ last.op = "schedule_appointment" /\ last.err = "past"
    /\ \E i \in Indexes(appointments) :
        /\ appointments[i].consultation_id \in DOMAIN consultations
        /\ consultations[appointments[i].consultation_id].doctor_id = appointments[i].doctor_id

====
